---- MODULE Spec2Model ----
(***************************************************************************)
(* State-machine model of the Time Clash socket server (src/server.js):    *)
(* the per-connection session handlers 'ig' / 'st' / 'sp' / 'disconnect',  *)
(* the sliding-window rate limiter, the tournament coordinator tick, the   *)
(* schedule checker, the admin endpoints that admit tournaments, and the   *)
(* Redis keys these read and write.                                        *)
(*                                                                         *)
(* Time is the server's wall clock in milliseconds.  An async handler is   *)
(* cut at its awaits on the store: one step runs the synchronous code up   *)
(* to the next store call, which takes effect in that step; the code after *)
(* the await runs in a later step.  Consecutive awaits with no decision    *)
(* between them are one step.  The Redis client is the TCP client (string  *)
(* replies).  Display names, user metadata and the Supabase tables are     *)
(* outside the model; a request to archive a tournament is recorded.       *)
(***************************************************************************)
EXTENDS Integers, Sequences, FiniteSets, TLC

----------------------------------------------------------------------------
(* Bounds of the model *)

MaxEvents == 4
MaxAdvances == 2
MaxAdmin == 1
MaxRetries == 5
MaxInits == 2
MaxPair == 6
MaxBurst == 11
MaxRank == 6
MaxStarts == 4
MaxDeny == 13
MaxSwitch == 2
MaxReinit == 5

Conns == {1, 2}
Users == {1, 2}
Modes == {"p", "t"}
ClientValues == {0, 7777}
TimeSteps == {125, 5000}
RLSteps == {5000, 290000}

----------------------------------------------------------------------------
(* Program constants *)

TOURNAMENT_DURATION_MS == 15 * 60 * 1000
PLAY_TIME_MS == 12 * 60 * 1000
LEADERBOARD_TIME_MS == 3 * 60 * 1000

RATE_LIMITS(event) ==
    CASE event = "ig" -> [max |-> 10, window |-> 60 * 1000]
      [] event = "st" -> [max |-> 5, window |-> 10 * 1000]
      [] event = "sp" -> [max |-> 10, window |-> 20 * 1000]
      [] OTHER -> [max |-> 20, window |-> 1000]

TICK_PERIOD_MS == 10000
SCHEDULE_PERIOD_MS == 10000
SWEEP_PERIOD_MS == 5 * 60 * 1000
CACHE_TTL_MS == 10000
SCHEDULE_EARLY_MS == 5000
SCHEDULE_LATE_MS == 15000
HISTORY_KEEP == 50
SCHEDULE_KEEP == 100

(* Math.floor(Math.random() * 9000) + 1000 *)
TargetRange == 1000 .. 9999
Targets == {5000, 5125}

(* the process starts at some wall-clock time; slot arithmetic only sees it *)
(* modulo the slot length: in play time, 5 s before play time ends, 5 s     *)
(* before the slot ends                                                     *)
StartClocks ==
    {TOURNAMENT_DURATION_MS,
     TOURNAMENT_DURATION_MS + PLAY_TIME_MS - 5000,
     2 * TOURNAMENT_DURATION_MS - 5000}

Null == -1

----------------------------------------------------------------------------
(* Values *)

NoKey == [kind |-> "none", at |-> 0, sched |-> 0]

(* the key of the rolling 15-minute slot holding timestamp: the formatted  *)
(* UTC start of the interval, which the interval start determines          *)
getTournamentKey(timestamp) ==
    [kind |-> "auto",
     at |-> (timestamp \div TOURNAMENT_DURATION_MS) * TOURNAMENT_DURATION_MS,
     sched |-> 0]

Abs(x) == IF x < 0 THEN -x ELSE x
Max(a, b) == IF a > b THEN a ELSE b
CeilDiv(a, b) == (a + b - 1) \div b

(* decimal strings, as the store holds numbers: toString / parseInt *)
RECURSIVE NumToStr(_)
NumToStr(n) == IF n < 10 THEN <<n>> ELSE Append(NumToStr(n \div 10), n % 10)

(* the value of the first n digits of s *)
RECURSIVE ParseDigits(_, _)
ParseDigits(s, n) == IF n = 0 THEN 0 ELSE ParseDigits(s, n - 1) * 10 + s[n]

ParseInt(s) == ParseDigits(s, Len(s))

NoStr == <<>>

----------------------------------------------------------------------------
(* State *)

VARIABLES
    now,                        \* Date.now()
    advances,                   \* clock advances so far (bound)
    events,                     \* client and admin requests so far (bound)
    admins,
    connected,                  \* sockets that have not disconnected
    requestCounts,              \* rate limiter: <<socket, event>> -> timestamps
    sessionStore,               \* socket -> session
    gameIntervals,              \* sockets with a registered 100 ms push interval
    activeUsers,                \* socket -> userId (0: absent)
    cachedTop3, lastLeaderboardUpdate, currentCachedTournamentId,
    currentTournamentKey, autoTournamentEnabled,
    lastBroadcastPhase, lastArchivedTournament,
    nextTick, nextSchedule, nextSweep,      \* setInterval timers
    redisUp,                    \* the store answers
    zsets,                      \* sorted sets: {[tid, user, score]}
    targets,                    \* <tid>_target keys with expiry
    timing,                     \* tournament:<tid>:* keys with expiry
    scheduled,                  \* list tournament:scheduled
    history,                    \* list tournament_history
    archived,                   \* archiveTournamentToSupabase requests issued
    igh, sph,                   \* the suspended 'ig' / 'sp' handler of a socket
    out,                        \* messages emitted by the last step
    trueWindow,                 \* history: admissions of the last window
    phaseSeen,                  \* history: last phase reported per tournament id
    bestWritten,                \* history: lowest score ever written per pair
    lastStart,                  \* history: the last admitted start of a socket
    lastResult,                 \* history: the last scored stop of a socket
    prevResult,                 \* history: the scored stop before it
    tk,                         \* the suspended runs of the tick callback
    sth,                        \* the suspended 'st' handler of a socket
    health,                     \* health:<userId> keys
    healthRegen,                \* health_regen:<userId> keys
    lastTu,                     \* history: the last 'tu' of a tick run
    daily,                      \* list tournament:daily-schedules
    dailyExecuted,              \* tournament:daily-executed:<id>:<day> keys
    dch,                        \* suspended runs of the schedule check
    liveIntervals               \* socket -> intervals set and not cleared

coordVars == <<currentTournamentKey, autoTournamentEnabled, lastBroadcastPhase,
               lastArchivedTournament>>
cacheVars == <<cachedTop3, lastLeaderboardUpdate, currentCachedTournamentId>>
timerVars == <<nextTick, nextSchedule, nextSweep>>
redisVars == <<zsets, targets, timing, scheduled, history>>
sessVars == <<sessionStore, gameIntervals, activeUsers>>
dailyVars == <<daily, dailyExecuted, dch>>
auxRest == <<tk, sth, health, healthRegen, lastTu, dailyVars>>
auxVars == <<auxRest, liveIntervals>>
histVars == <<trueWindow, phaseSeen, bestWritten, lastStart, lastResult,
             prevResult>>

vars == <<now, advances, events, admins, connected, requestCounts, sessVars,
          cacheVars, coordVars, timerVars, redisUp, redisVars, archived,
          igh, sph, out, histVars, auxVars>>

Events == {"ig", "st", "sp"}

(* scored is history: the results this session has produced *)
NoSession ==
    [userId |-> 0, targetTime |-> 0, startTime |-> 0, status |-> "none",
     bestScore |-> Null, tournamentId |-> NoKey, mode |-> "", scored |-> 0]

NoTiming ==
    [duration |-> 0, playTime |-> 0, leaderboardTime |-> 0, startTime |-> 0]

(* one shape for every message; a field an event does not carry keeps its *)
(* default                                                                *)
Msg ==
    [ev |-> "", to |-> 0, t |-> 0, b |-> 0, r |-> Null, tl |-> 0,
     tid |-> NoKey, ph |-> "", ltl |-> 0, noTournament |-> FALSE,
     w |-> 0, d |-> 0, ft |-> 0, tt |-> 0, bs |-> Null, nr |-> 0,
     lb |-> <<>>, rem |-> 0, winners |-> <<>>, err |-> "", health |-> 0]

IdleIg ==
    [pc |-> "idle", u |-> 0, m |-> "", cnow |-> 0, ctid |-> NoKey,
     top3 |-> <<>>, ok |-> TRUE, tid |-> NoKey, existing |-> NoStr,
     target |-> 0, score |-> NoStr, rank |-> Null, best |-> Null]

IdleSp ==
    [pc |-> "idle", userId |-> 0, mode |-> "", stid |-> NoKey, ctid |-> NoKey,
     diff |-> 0, ft |-> 0, target |-> 0, best |-> Null, nr |-> FALSE,
     wrote |-> FALSE, lb |-> <<>>, win |-> FALSE,
     gStart |-> 0, gStop |-> 0, gBest |-> Null, gcv |-> 0]

(* a tick run that is not in progress *)
TickRuns == {1, 2}
IdleTick ==
    [pc |-> "idle", newKey |-> NoKey, endKey |-> NoKey, custom |-> FALSE,
     timing |-> NoTiming, phase |-> "", previous |-> ""]

(* quiet: a later run compared at the same clock and stayed silent *)
NoTu == [at |-> 0, tid |-> NoKey, ph |-> "", quiet |-> FALSE]

IdleSt ==
    [pc |-> "idle", got |-> NoStr, ok |-> TRUE, newHealth |-> 0,
     session |-> NoSession]

NoStart == [at |-> 0, cv |-> 0]
NoResult ==
    [valid |-> FALSE, start |-> 0, stop |-> 0, target |-> 0, best0 |-> Null,
     mode |-> "", cvStart |-> 0, cvStop |-> 0,
     ft |-> 0, d |-> 0, w |-> 0, nr |-> 0, bs |-> Null]

----------------------------------------------------------------------------
(* The store *)

Alive(r) == now < r.exp

(* ZADD key score member: one entry per member, the new score replaces *)
ZAdd(z, tid, score, user) ==
    {e \in z : ~(e.tid = tid /\ e.user = user)}
        \cup {[tid |-> tid, user |-> user, score |-> score]}

ZMembers(tid) == {e \in zsets : e.tid = tid}

(* variant: members in lexical order whatever their scores *)
ZBeforeByMember(e, f) == e.user < f.user

(* ascending by score, members of equal score in lexical order *)
ZBefore(e, f) == e.score < f.score \/ (e.score = f.score /\ e.user < f.user)

ZPos(e) == Cardinality({f \in ZMembers(e.tid) : ZBefore(f, e)})

(* ZSCORE: the score as a string, NoStr for nil *)
ZScore(tid, user) ==
    IF \E e \in ZMembers(tid) : e.user = user
    THEN NumToStr((CHOOSE e \in ZMembers(tid) : e.user = user).score)
    ELSE NoStr

(* ZRANK: zero-based position, Null for nil *)
ZRank(tid, user) ==
    IF \E e \in ZMembers(tid) : e.user = user
    THEN ZPos(CHOOSE e \in ZMembers(tid) : e.user = user)
    ELSE Null

(* ZRANGE key 0 hi WITHSCORES, formatted as {user, score} entries *)
ZRange(tid, hi) ==
    LET n == IF Cardinality(ZMembers(tid)) < hi + 1
             THEN Cardinality(ZMembers(tid)) ELSE hi + 1
    IN  [i \in 1 .. n |->
            LET e == CHOOSE x \in ZMembers(tid) : ZPos(x) = i - 1
            IN  [user |-> e.user, score |-> e.score]]

(* GET <tid>_target *)
GetTarget(tid) ==
    IF \E r \in targets : r.tid = tid /\ Alive(r)
    THEN (CHOOSE r \in targets : r.tid = tid /\ Alive(r)).v
    ELSE NoStr

(* SETEX <tid>_target seconds value *)
SetExTarget(tg, tid, seconds, v) ==
    {r \in tg : r.tid # tid}
        \cup {[tid |-> tid, v |-> v, exp |-> now + seconds * 1000]}

(* the four tournament:<tid>:* keys, read back with parseInt; nil when any *)
(* of them is missing or the store fails                                    *)
getCustomTournamentTiming(tid) ==
    IF redisUp /\ \E r \in timing : r.tid = tid /\ Alive(r) /\ r.hasStart
    THEN LET r == CHOOSE x \in timing : x.tid = tid /\ Alive(x) /\ x.hasStart
         IN  [duration |-> ParseInt(NumToStr(r.duration)),
              playTime |-> ParseInt(NumToStr(r.playTime)),
              leaderboardTime |-> ParseInt(NumToStr(r.leaderboardTime)),
              startTime |-> ParseInt(NumToStr(r.startTime))]
    ELSE NoTiming

SlotElapsed == now - (now \div TOURNAMENT_DURATION_MS) * TOURNAMENT_DURATION_MS

getTournamentTimeLeft(tid) ==
    LET custom == getCustomTournamentTiming(tid)
    IN  IF tid # NoKey /\ custom # NoTiming
        THEN IF now - custom.startTime >= custom.playTime
             THEN 0
             ELSE Max(0, custom.playTime - (now - custom.startTime))
        ELSE IF SlotElapsed >= PLAY_TIME_MS
             THEN 0
             ELSE PLAY_TIME_MS - SlotElapsed

(* 'p' playing, 'l' leaderboard, 'n' no tournament *)
getTournamentPhase(tid) ==
    LET custom == getCustomTournamentTiming(tid)
        elapsed == IF custom # NoTiming THEN now - custom.startTime
                   ELSE SlotElapsed
        playTime == IF custom # NoTiming THEN custom.playTime ELSE PLAY_TIME_MS
    IN  IF tid = NoKey THEN "n"
        ELSE IF elapsed < playTime THEN "p" ELSE "l"

getLeaderboardTimeLeft(tid) ==
    LET custom == getCustomTournamentTiming(tid)
    IN  IF tid = NoKey THEN 0
        ELSE IF custom # NoTiming
        THEN Max(0, custom.playTime
                    + (IF custom.leaderboardTime # 0 THEN custom.leaderboardTime
                       ELSE LEADERBOARD_TIME_MS)
                    - (now - custom.startTime))
        ELSE Max(0, TOURNAMENT_DURATION_MS - SlotElapsed)

----------------------------------------------------------------------------
(* Rate limiter *)

InWindow(ts, window) == SelectSeq(ts, LAMBDA t : now - t < window)

(* variant: a limiter that admits everything *)
AdmitsAlways(c, event) == TRUE

(* whether checkRateLimit(socket, event) admits the event now *)
Admits(c, event) ==
    Len(InWindow(requestCounts[<<c, event>>], RATE_LIMITS(event).window))
        < RATE_LIMITS(event).max

(* requestCounts after checkRateLimit(socket, event) *)
Counted(c, event) ==
    IF Admits(c, event)
    THEN [requestCounts EXCEPT ![<<c, event>>] =
            Append(InWindow(@, RATE_LIMITS(event).window), now)]
    ELSE requestCounts

(* history: the admissions of <<c, event>> in the window ending now *)
Windowed(c, event) ==
    IF Admits(c, event)
    THEN [trueWindow EXCEPT ![<<c, event>>] =
            Append(InWindow(@, RATE_LIMITS(event).window), now)]
    ELSE trueWindow

----------------------------------------------------------------------------
(* Messages and the histories kept of them *)

PhaseOf(m) == IF m.ev = "tou_end" THEN "e" ELSE m.ph

Seen(ps, m) ==
    IF m.ev \in {"tu", "grd", "gr", "tou_end"} /\ m.tid # NoKey
    THEN {r \in ps : r.tid # m.tid} \cup {[tid |-> m.tid, ph |-> PhaseOf(m)]}
    ELSE ps

RECURSIVE SeenAll(_, _)
SeenAll(ps, msgs) ==
    IF Len(msgs) = 0 THEN ps ELSE SeenAll(Seen(ps, Head(msgs)), Tail(msgs))

(* socket.emit / io.emit of msgs; a message to a closed socket is lost *)
Emit(msgs) ==
    LET sent == SelectSeq(msgs, LAMBDA m : m.to = 0 \/ m.to \in connected)
    IN  /\ out' = sent
        /\ phaseSeen' = SeenAll(phaseSeen, sent)

Written(bw, tid, user, score) ==
    IF \E r \in bw : r.tid = tid /\ r.user = user /\ r.score <= score
    THEN bw
    ELSE {r \in bw : ~(r.tid = tid /\ r.user = user)}
            \cup {[tid |-> tid, user |-> user, score |-> score]}

----------------------------------------------------------------------------
(* 'st': start the cloud timer *)

(* variant: a session is started once only *)
StartSessionFromReady(s, cv) ==
    IF s.status = "ready"
    THEN [s EXCEPT !.startTime = now, !.status = "running"]
    ELSE s

(* variant: the start time taken from what the client sends *)
StartSessionClientClock(s, cv) ==
    [s EXCEPT !.startTime = now - cv, !.status = "running"]

(* variant: the lookup never comes back empty *)
HasSessionAlways(s) == TRUE

(* const session = sessionStore.get(socket.id); if (!session) ... *)
HasSession(s) == s # NoSession

(* the handler takes no argument: what the client sends with the event is *)
(* not read                                                                *)
StartSession(s, cv) == [s EXCEPT !.startTime = now, !.status = "running"]

(* clearInterval(gameIntervals.get(socket.id)) before a start: the *)
(* intervals of c that are live afterwards                          *)
ClearBeforeStartNever(c, n) == n

ClearBeforeStart(c, n) == IF c \in gameIntervals THEN n - 1 ELSE n

(* if (gameIntervals.has(id)) clearInterval(...); setInterval(...); *)
(* gameIntervals.set(id, intervalId)                                *)
SetInterval(c) ==
    /\ gameIntervals' = gameIntervals \cup {c}
    /\ liveIntervals' = [liveIntervals EXCEPT ![c] = ClearBeforeStart(c, @) + 1]

(* if (gameIntervals.has(id)) { clearInterval(...); gameIntervals.delete(id) } *)
DropInterval(c) ==
    /\ gameIntervals' = gameIntervals \ {c}
    /\ liveIntervals' = [liveIntervals EXCEPT ![c] =
                            IF c \in gameIntervals THEN @ - 1 ELSE @]

St(c, cv) ==
    /\ c \in connected
    /\ events' = events + 1
    /\ requestCounts' = Counted(c, "st")
    /\ trueWindow' = Windowed(c, "st")
    /\ IF Admits(c, "st") /\ HasSession(sessionStore[c])
       THEN /\ SetInterval(c)
            /\ sessionStore' = [sessionStore EXCEPT ![c] = StartSession(@, cv)]
            /\ lastStart' = [lastStart EXCEPT ![c] = [at |-> now, cv |-> cv]]
       ELSE UNCHANGED <<gameIntervals, liveIntervals, sessionStore, lastStart>>
    /\ Emit(<<>>)
    /\ UNCHANGED auxRest
    /\ UNCHANGED <<now, advances, admins, connected, activeUsers, cacheVars,
                   coordVars, timerVars, redisUp, redisVars, archived, igh, sph,
                   bestWritten, lastResult, prevResult>>

----------------------------------------------------------------------------
(* 'st' with the attempt wallet: in tournament mode the start waits for  *)
(* the player's health key and takes one point of it                     *)

(* the start itself: the interval is registered under the socket id and  *)
(* the session object found at the beginning is marked running, whether  *)
(* or not the socket is still connected. The object is still the stored  *)
(* one when the store holds an equal session.                            *)
StRun(c, session) ==
    /\ SetInterval(c)
    /\ sessionStore' =
            IF session # NoSession /\ sessionStore[c] = session
            THEN [sessionStore EXCEPT ![c] = StartSession(@, 0)]
            ELSE sessionStore
    /\ lastStart' = [lastStart EXCEPT ![c] = [at |-> now, cv |-> 0]]

StKeep == UNCHANGED <<gameIntervals, liveIntervals, sessionStore, lastStart>>

StFrame ==
    UNCHANGED <<now, advances, admins, connected, activeUsers, cacheVars,
                coordVars, timerVars, redisUp, redisVars, archived, igh, sph,
                bestWritten, lastResult, prevResult, tk, lastTu, dailyVars>>

NoHealth(c) == [Msg EXCEPT !.ev = "no_health", !.to = c, !.health = 0]

HealthUpdate(c, h) == [Msg EXCEPT !.ev = "health_update", !.to = c, !.health = h]

(* variant: a start with an empty wallet goes ahead *)
WalletEmptyNever(currentHealth) == FALSE

(* if (currentHealth <= 0) *)
WalletEmpty(currentHealth) == currentHealth <= 0

(* the event arrives: rate limit, session lookup, redis.get of the key *)
StGate(c) ==
    LET session == sessionStore[c]
    IN  /\ c \in connected
        /\ events' = events + 1
        /\ requestCounts' = Counted(c, "st")
        /\ trueWindow' = Windowed(c, "st")
        /\ IF Admits(c, "st") /\ HasSession(session)
           THEN IF session.mode = "t" /\ session.userId # 0
                THEN /\ sth' = [sth EXCEPT ![c] =
                            [IdleSt EXCEPT !.pc = "health",
                                !.got = IF redisUp THEN health[session.userId]
                                        ELSE NoStr,
                                !.ok = redisUp, !.session = session]]
                     /\ StKeep
                ELSE /\ StRun(c, session)
                     /\ UNCHANGED sth
           ELSE /\ StKeep
                /\ UNCHANGED sth
        /\ Emit(<<>>)
        /\ UNCHANGED <<health, healthRegen>>
        /\ StFrame

(* the key has arrived: no_health, or redis.set of one point less; an   *)
(* error of the store is caught and the start goes ahead                *)
StHealth(c) ==
    LET h == sth[c]
        currentHealth == ParseInt(h.got)
    IN  /\ h.pc = "health"
        /\ IF ~h.ok
           THEN /\ StRun(c, h.session)
                /\ sth' = [sth EXCEPT ![c] = IdleSt]
                /\ Emit(<<>>)
                /\ UNCHANGED health
           ELSE IF WalletEmpty(currentHealth)
           THEN /\ StKeep
                /\ sth' = [sth EXCEPT ![c] = IdleSt]
                /\ Emit(<<NoHealth(c)>>)
                /\ UNCHANGED health
           ELSE /\ StKeep
                /\ sth' = [sth EXCEPT ![c] =
                        [h EXCEPT !.pc = "set", !.ok = redisUp,
                                  !.newHealth = currentHealth - 1]]
                /\ health' = IF redisUp
                             THEN [health EXCEPT ![h.session.userId] =
                                        NumToStr(currentHealth - 1)]
                             ELSE health
                /\ Emit(<<>>)
        /\ UNCHANGED <<events, requestCounts, trueWindow, healthRegen>>
        /\ StFrame

(* the new value is stored: with the wallet now empty the refill clock  *)
(* is written first, otherwise health_update and the start              *)
StSet(c) ==
    LET h == sth[c]
    IN  /\ h.pc = "set"
        /\ IF h.ok /\ h.newHealth <= 0
           THEN /\ StKeep
                /\ sth' = [sth EXCEPT ![c] =
                        [h EXCEPT !.pc = "regen", !.ok = redisUp]]
                /\ healthRegen' = IF redisUp
                                  THEN [healthRegen EXCEPT ![h.session.userId] =
                                            NumToStr(now)]
                                  ELSE healthRegen
                /\ Emit(<<>>)
           ELSE /\ StRun(c, h.session)
                /\ sth' = [sth EXCEPT ![c] = IdleSt]
                /\ UNCHANGED healthRegen
                /\ Emit(IF h.ok THEN <<HealthUpdate(c, h.newHealth)>> ELSE <<>>)
        /\ UNCHANGED <<events, requestCounts, trueWindow, health>>
        /\ StFrame

(* the refill clock is stored: health_update and the start *)
StRegen(c) ==
    LET h == sth[c]
    IN  /\ h.pc = "regen"
        /\ StRun(c, h.session)
        /\ sth' = [sth EXCEPT ![c] = IdleSt]
        /\ Emit(IF h.ok THEN <<HealthUpdate(c, h.newHealth)>> ELSE <<>>)
        /\ UNCHANGED <<events, requestCounts, trueWindow, health, healthRegen>>
        /\ StFrame

----------------------------------------------------------------------------
(* 'sp': stop the cloud timer and score *)

(* variant: a near miss counted as a win *)
ScoreWithTolerance(startTime, stopTime, target) ==
    LET serverDuration == stopTime - startTime
        diff == Abs(serverDuration - target)
    IN  [ft |-> serverDuration, diff |-> diff, win |-> diff <= 125]

(* FINAL CALCULATION *)
Score(startTime, stopTime, target) ==
    LET serverDuration == stopTime - startTime
        diff == Abs(serverDuration - target)
    IN  [ft |-> serverDuration, diff |-> diff, win |-> diff = 0]

(* variant: a tie counted as a new record *)
BetterOrEqual(bestScore, diff) == bestScore = Null \/ diff <= bestScore

(* lower diff is better *)
Better(bestScore, diff) == bestScore = Null \/ diff < bestScore

(* variant: every mode ranked *)
RankedAlways(mode) == TRUE

(* ONLY UPDATE REDIS IF IN TOURNAMENT MODE *)
Ranked(mode) == mode = "t"

(* the sorted set a stop reads and writes *)
StopKey(s) == getTournamentKey(s.startTime)

(* variant: the double-submission check left out *)
ScorableAnyStatus(s) == s.status \in {"ready", "running", "finished"}

(* Prevent double submission *)
Scorable(s) == s.status = "running"

SpRecv(c, cv) ==
    LET s == sessionStore[c]
        sc == Score(s.startTime, now, s.targetTime)
        nr == Ranked(s.mode) /\ Better(s.bestScore, sc.diff)
        best == IF nr THEN sc.diff ELSE s.bestScore
        key == StopKey(s)
        scoring == Admits(c, "sp") /\ HasSession(s) /\ Scorable(s)
    IN  /\ c \in connected
            /\ scoring => sph[c].pc = "idle"
        /\ events' = events + 1
        /\ requestCounts' = Counted(c, "sp")
        /\ trueWindow' = Windowed(c, "sp")
        /\ IF Admits(c, "sp") THEN DropInterval(c)
           ELSE UNCHANGED <<gameIntervals, liveIntervals>>
        /\ IF scoring
           THEN /\ sessionStore' =
                    [sessionStore EXCEPT ![c].status = "finished",
                                         ![c].bestScore = best,
                                         ![c].scored = @ + 1]
                /\ zsets' = IF nr /\ redisUp
                            THEN ZAdd(zsets, key, sc.diff, s.userId)
                            ELSE zsets
                /\ bestWritten' = IF nr /\ redisUp
                                  THEN Written(bestWritten, key, s.userId, sc.diff)
                                  ELSE bestWritten
                /\ sph' = [sph EXCEPT ![c] =
                            [pc |-> "reply", userId |-> s.userId, mode |-> s.mode,
                             stid |-> s.tournamentId, ctid |-> key,
                             diff |-> sc.diff, ft |-> sc.ft,
                             target |-> s.targetTime, best |-> best, nr |-> nr,
                             wrote |-> nr /\ redisUp, win |-> sc.win,
                             lb |-> IF s.mode = "t" THEN <<>> ELSE cachedTop3,
                             gStart |-> lastStart[c].at, gStop |-> now,
                             gBest |-> s.bestScore, gcv |-> cv]]
                /\ Emit(<<>>)
           ELSE /\ UNCHANGED <<sessionStore, zsets, bestWritten, sph>>
                /\ IF Admits(c, "sp") /\ ~HasSession(s)
                   THEN Emit(<<[Msg EXCEPT !.ev = "game_over", !.to = c,
                                           !.err = "Invalid Session"]>>)
                   ELSE Emit(<<>>)
        /\ UNCHANGED auxRest
        /\ UNCHANGED <<now, advances, admins, connected, activeUsers, cacheVars,
                       coordVars, timerVars, redisUp, targets, timing, scheduled,
                       history, archived, igh, lastStart, lastResult, prevResult>>

SpReply(c) ==
    LET h == sph[c]
        rankIndex == IF Ranked(h.mode) /\ redisUp /\ (h.nr => h.wrote)
                     THEN ZRank(h.ctid, h.userId) ELSE Null
        rank == IF rankIndex # Null THEN rankIndex + 1 ELSE Null
        leaders == IF h.mode = "t" THEN cachedTop3 ELSE h.lb
        ref == IF h.stid # NoKey THEN h.stid ELSE currentTournamentKey
        gr == [Msg EXCEPT !.ev = "gr", !.to = c,
                          !.w = IF h.win THEN 1 ELSE 0,
                          !.d = h.diff, !.ft = h.ft, !.tt = h.target,
                          !.r = rank, !.bs = h.best,
                          !.nr = IF h.nr THEN 1 ELSE 0,
                          !.lb = leaders, !.tid = h.ctid,
                          !.rem = getTournamentTimeLeft(ref),
                          !.ph = getTournamentPhase(ref)]
    IN  /\ h.pc = "reply"
        /\ sph' = [sph EXCEPT ![c] = IdleSp]
        /\ Emit(<<gr>>)
        /\ lastResult' = [lastResult EXCEPT ![c] =
                [valid |-> TRUE, start |-> h.gStart, stop |-> h.gStop,
                 target |-> h.target, best0 |-> h.gBest, mode |-> h.mode,
                 cvStart |-> lastStart[c].cv, cvStop |-> h.gcv,
                 ft |-> gr.ft, d |-> gr.d, w |-> gr.w, nr |-> gr.nr,
                 bs |-> gr.bs]]
        /\ UNCHANGED auxVars
        /\ UNCHANGED <<now, advances, events, admins, connected, requestCounts,
                       sessVars, cacheVars, coordVars, timerVars, redisUp,
                       redisVars, archived, igh, trueWindow, bestWritten,
                       lastStart>>
        /\ prevResult' = [prevResult EXCEPT ![c] = lastResult[c]]

----------------------------------------------------------------------------
(* 'disconnect' *)

Disconnect(c) ==
    /\ c \in connected
    /\ connected' = connected \ {c}
    /\ DropInterval(c)
    /\ sessionStore' = [sessionStore EXCEPT ![c] = NoSession]
    /\ activeUsers' = [activeUsers EXCEPT ![c] = 0]
    /\ Emit(<<>>)
    /\ UNCHANGED auxRest
    /\ UNCHANGED <<now, advances, events, admins, requestCounts, cacheVars,
                   coordVars, timerVars, redisUp, redisVars, archived, igh, sph,
                   trueWindow, bestWritten, lastStart, lastResult, prevResult>>

----------------------------------------------------------------------------
(* 'ig': init game *)

(* variant: the fresh session counted as started *)
NewSessionStarted(userId, targetTime, bestScore, tournamentId, mode) ==
    [userId |-> userId, targetTime |-> targetTime, startTime |-> now,
     status |-> "running", bestScore |-> bestScore,
     tournamentId |-> tournamentId, mode |-> mode, scored |-> 0]

NewSession(userId, targetTime, bestScore, tournamentId, mode) ==
    [userId |-> userId, targetTime |-> targetTime, startTime |-> 0,
     status |-> "ready", bestScore |-> bestScore,
     tournamentId |-> tournamentId, mode |-> mode, scored |-> 0]

(* variant: the auto-rotation switch not consulted *)
ResolveCurrentAlwaysAuto(mode) ==
    IF mode = "t" /\ currentTournamentKey # NoKey
    THEN currentTournamentKey
    ELSE getTournamentKey(now)

(* the tournament id an init is bound to; NoKey: no tournament *)
ResolveCurrent(mode) ==
    IF mode = "t"
    THEN IF currentTournamentKey = NoKey
         THEN IF autoTournamentEnabled THEN getTournamentKey(now) ELSE NoKey
         ELSE currentTournamentKey
    ELSE getTournamentKey(now)

(* whether the stored target string is used; otherwise one is generated *)
UseExisting(ok, existing) == ok /\ existing # NoStr

(* the synchronous code from the mode decision to the next store call *)
Resolve(c, u, m) ==
    LET tid == ResolveCurrent(m)
    IN  IF tid = NoKey
        THEN /\ igh' = [igh EXCEPT ![c] = IdleIg]
             /\ Emit(<<[Msg EXCEPT !.ev = "grd", !.to = c, !.t = 0, !.b = -1,
                                   !.r = -1, !.tl = 0, !.tid = NoKey,
                                   !.noTournament = TRUE]>>)
             /\ UNCHANGED <<currentTournamentKey, sessionStore, activeUsers>>
        ELSE IF m = "t"
        THEN /\ currentTournamentKey' = tid
             /\ igh' = [igh EXCEPT ![c] =
                    [IdleIg EXCEPT !.pc = "get", !.u = u, !.m = m, !.tid = tid,
                                   !.ok = redisUp,
                                   !.existing = IF redisUp THEN GetTarget(tid)
                                                ELSE NoStr]]
             /\ Emit(<<>>)
             /\ UNCHANGED <<sessionStore, activeUsers>>
        ELSE \E t \in Targets :
             /\ sessionStore' = [sessionStore EXCEPT ![c] =
                                    NewSession(u, t, Null, tid, m)]
             /\ activeUsers' = [activeUsers EXCEPT ![c] = u]
             /\ igh' = [igh EXCEPT ![c] =
                    [IdleIg EXCEPT !.pc = "reply", !.u = u, !.m = m,
                                   !.tid = tid, !.target = t]]
             /\ Emit(<<>>)
             /\ UNCHANGED currentTournamentKey

CacheValid ==
    /\ now - lastLeaderboardUpdate < CACHE_TTL_MS
    /\ currentCachedTournamentId = getTournamentKey(now)

IgRecv(c, u, m) ==
    /\ c \in connected
    /\ igh[c].pc = "idle"
    /\ events' = events + 1
    /\ requestCounts' = Counted(c, "ig")
    /\ trueWindow' = Windowed(c, "ig")
    /\ IF ~Admits(c, "ig")
       THEN /\ Emit(<<[Msg EXCEPT !.ev = "to", !.to = c,
                                  !.err = "Too many requests. Please wait."]>>)
            /\ UNCHANGED <<igh, currentTournamentKey, sessionStore, activeUsers>>
       ELSE IF CacheValid
       THEN Resolve(c, u, m)
       ELSE /\ igh' = [igh EXCEPT ![c] =
                    [IdleIg EXCEPT !.pc = "cache", !.u = u, !.m = m,
                                   !.cnow = now, !.ctid = getTournamentKey(now),
                                   !.ok = redisUp,
                                   !.top3 = IF redisUp
                                            THEN ZRange(getTournamentKey(now), 2)
                                            ELSE <<>>]]
            /\ Emit(<<>>)
            /\ UNCHANGED <<currentTournamentKey, sessionStore, activeUsers>>
    /\ UNCHANGED auxVars
    /\ UNCHANGED <<now, advances, admins, connected, gameIntervals, cacheVars,
                   autoTournamentEnabled, lastBroadcastPhase,
                   lastArchivedTournament, timerVars, redisUp, redisVars,
                   archived, sph, bestWritten, lastStart, lastResult, prevResult>>

(* refreshLeaderboardCache after its ZRANGE, then the mode decision *)
IgCache(c) ==
    LET h == igh[c]
    IN  /\ h.pc = "cache"
        /\ IF h.ok
           THEN /\ cachedTop3' = h.top3
                /\ lastLeaderboardUpdate' = h.cnow
                /\ currentCachedTournamentId' = h.ctid
           ELSE UNCHANGED cacheVars
        /\ Resolve(c, h.u, h.m)
        /\ UNCHANGED auxVars
        /\ UNCHANGED <<now, advances, events, admins, connected, requestCounts,
                       gameIntervals, autoTournamentEnabled, lastBroadcastPhase,
                       lastArchivedTournament, timerVars, redisUp, redisVars,
                       archived, sph, trueWindow, bestWritten, lastStart,
                       lastResult, prevResult>>

(* after GET <tid>_target: use it, or generate and SETEX; then ZSCORE, ZRANK *)
IgGet(c) ==
    LET h == igh[c]
    IN  /\ h.pc = "get"
        /\ \E t \in Targets :
            LET use == UseExisting(h.ok, h.existing)
                target == IF use THEN ParseInt(h.existing) ELSE t
            IN  /\ targets' = IF h.ok /\ ~use /\ redisUp
                              THEN SetExTarget(targets, h.tid,
                                        CeilDiv(TOURNAMENT_DURATION_MS, 1000),
                                        NumToStr(t))
                              ELSE targets
                /\ igh' = [igh EXCEPT ![c] =
                        [IdleIg EXCEPT !.pc = "score", !.u = h.u, !.m = h.m,
                            !.tid = h.tid, !.target = target,
                            !.score = IF redisUp THEN ZScore(h.tid, h.u)
                                      ELSE NoStr,
                            !.rank = IF redisUp THEN ZRank(h.tid, h.u)
                                     ELSE Null]]
        /\ Emit(<<>>)
        /\ UNCHANGED auxVars
        /\ UNCHANGED <<now, advances, events, admins, connected, requestCounts,
                       sessVars, cacheVars, coordVars, timerVars, redisUp, zsets,
                       timing, scheduled, history, archived, sph, trueWindow,
                       bestWritten, lastStart, lastResult, prevResult>>

(* after ZSCORE / ZRANK: store the session *)
IgScore(c) ==
    LET h == igh[c]
        bestScore == IF h.score # NoStr THEN ParseInt(h.score) ELSE Null
    IN  /\ h.pc = "score"
        /\ sessionStore' = [sessionStore EXCEPT ![c] =
                                NewSession(h.u, h.target, bestScore, h.tid, h.m)]
        /\ activeUsers' = [activeUsers EXCEPT ![c] = h.u]
        /\ igh' = [igh EXCEPT ![c] = [h EXCEPT !.pc = "reply", !.best = bestScore,
                                               !.score = NoStr]]
        /\ Emit(<<>>)
        /\ UNCHANGED auxVars
        /\ UNCHANGED <<now, advances, events, admins, connected, requestCounts,
                       gameIntervals, cacheVars, coordVars, timerVars, redisUp,
                       redisVars, archived, sph, trueWindow, bestWritten,
                       lastStart, lastResult, prevResult>>

(* game ready data *)
IgReply(c) ==
    LET h == igh[c]
    IN  /\ h.pc = "reply"
        /\ igh' = [igh EXCEPT ![c] = IdleIg]
        /\ Emit(<<[Msg EXCEPT !.ev = "grd", !.to = c, !.t = h.target,
                              !.b = IF h.best # Null THEN h.best ELSE -1,
                              !.r = IF h.rank # Null THEN h.rank + 1 ELSE -1,
                              !.tl = getTournamentTimeLeft(h.tid),
                              !.tid = h.tid,
                              !.ph = getTournamentPhase(h.tid),
                              !.ltl = getLeaderboardTimeLeft(h.tid)]>>)
        /\ UNCHANGED auxVars
        /\ UNCHANGED <<now, advances, events, admins, connected, requestCounts,
                       sessVars, cacheVars, coordVars, timerVars, redisUp,
                       redisVars, archived, sph, trueWindow, bestWritten,
                       lastStart, lastResult, prevResult>>

----------------------------------------------------------------------------
(* Tournament coordinator *)

IsCustom(k) == k # NoKey /\ k.kind \in {"scheduled", "manual", "daily"}

Keep(list, n) == IF Len(list) > n THEN SubSeq(list, 1, n) ELSE list

(* endTournament(oldKey): history entry, tou_end broadcast, archive request; *)
(* a store failure is caught and nothing is done                            *)
EndHistory(h, oldKey) ==
    IF redisUp
    THEN Keep(<<[id |-> oldKey, ts |-> now, winners |-> ZRange(oldKey, 2)]>> \o h,
              HISTORY_KEEP)
    ELSE h

EndMsgs(oldKey) ==
    IF redisUp
    THEN <<[Msg EXCEPT !.ev = "tou_end", !.tid = oldKey,
                       !.winners = ZRange(oldKey, 2)]>>
    ELSE <<>>

EndArchived(a, oldKey) ==
    IF redisUp /\ lastArchivedTournament # oldKey THEN Append(a, oldKey) ELSE a

(* whether the tick ends the current tournament *)
TickEnds ==
    LET cur == currentTournamentKey
        custom == getCustomTournamentTiming(cur)
        total == custom.playTime
                    + (IF custom.leaderboardTime # 0 THEN custom.leaderboardTime
                       ELSE TOURNAMENT_DURATION_MS - custom.playTime)
    IN  IF IsCustom(cur)
        THEN custom = NoTiming \/ now - custom.startTime >= total
        ELSE cur # NoKey /\ getTournamentKey(now) # cur

(* variant: a new rolling tournament started whatever the switch says *)
TickKeyAlwaysRolling ==
    LET cur == currentTournamentKey
        fresh == getTournamentKey(now)
    IN  IF IsCustom(cur)
        THEN IF TickEnds THEN fresh ELSE cur
        ELSE IF getTournamentKey(now) # cur THEN fresh ELSE cur

(* currentTournamentKey after the first half of the tick *)
TickKey ==
    LET cur == currentTournamentKey
        fresh == IF autoTournamentEnabled THEN getTournamentKey(now) ELSE NoKey
    IN  IF IsCustom(cur)
        THEN IF TickEnds THEN fresh ELSE cur
        ELSE IF getTournamentKey(now) # cur THEN fresh ELSE cur

Tick ==
    LET cur == currentTournamentKey
        key == TickKey
        currentPhase == getTournamentPhase(key)
        changed == currentPhase # lastBroadcastPhase
        archive == /\ changed
                   /\ lastBroadcastPhase = "p" /\ currentPhase = "l"
                   /\ key # NoKey /\ lastArchivedTournament # key
        ended == IF TickEnds THEN EndArchived(archived, cur) ELSE archived
        tu == [Msg EXCEPT !.ev = "tu", !.ph = currentPhase,
                          !.tl = getTournamentTimeLeft(key),
                          !.ltl = getLeaderboardTimeLeft(key), !.tid = key]
    IN  /\ now >= nextTick
        /\ nextTick' = now + TICK_PERIOD_MS
        /\ currentTournamentKey' = key
        /\ history' = IF TickEnds THEN EndHistory(history, cur) ELSE history
        /\ lastBroadcastPhase' = currentPhase
        /\ lastArchivedTournament' = IF archive THEN key
                                     ELSE lastArchivedTournament
        /\ archived' = IF archive /\ redisUp THEN Append(ended, key) ELSE ended
        /\ Emit((IF TickEnds THEN EndMsgs(cur) ELSE <<>>)
                    \o (IF changed THEN <<tu>> ELSE <<>>))
        /\ UNCHANGED auxVars
        /\ UNCHANGED <<now, advances, events, admins, connected, requestCounts,
                       sessVars, cacheVars, autoTournamentEnabled, nextSchedule,
                       nextSweep, redisUp, zsets, targets, timing, scheduled,
                       igh, sph, trueWindow, bestWritten, lastStart, lastResult, prevResult>>

----------------------------------------------------------------------------
(* The tick callback run step by step: setInterval starts a run every     *)
(* period whether or not the earlier run has returned from its store      *)
(* calls. Tick above is the run whose store calls are all answered before *)
(* anything else happens.                                                 *)

TickVars == <<now, advances, events, admins, connected, requestCounts,
              sessVars, cacheVars, autoTournamentEnabled, nextSchedule,
              nextSweep, redisUp, zsets, targets, timing, scheduled, igh, sph,
              sth, health, healthRegen, trueWindow, bestWritten, lastStart, lastResult,
              prevResult, dailyVars, liveIntervals>>

Tu(ph, key) ==
    [Msg EXCEPT !.ev = "tu", !.ph = ph, !.tl = getTournamentTimeLeft(key),
                !.ltl = getLeaderboardTimeLeft(key), !.tid = key]

(* variant: the broadcast not remembered *)
TickCompareForgetful(i, k, ph, pre) ==
    /\ UNCHANGED lastBroadcastPhase
    /\ IF k = NoKey
       THEN /\ tk' = [tk EXCEPT ![i] = IdleTick]
            /\ Emit(pre \o <<Tu(ph, k)>>)
            /\ lastTu' = [at |-> now, tid |-> k, ph |-> ph, quiet |-> FALSE]
       ELSE /\ tk' = [tk EXCEPT ![i] =
                    [IdleTick EXCEPT !.pc = "emit", !.phase = ph,
                                     !.previous = lastBroadcastPhase]]
            /\ Emit(pre)
            /\ UNCHANGED lastTu

(* if (currentPhase !== lastBroadcastPhase): with no tournament the time  *)
(* left needs no store call and 'tu' goes out at once                     *)
TickCompare(i, k, ph, pre) ==
    IF ph # lastBroadcastPhase
    THEN /\ lastBroadcastPhase' = ph
         /\ IF k = NoKey
            THEN /\ tk' = [tk EXCEPT ![i] = IdleTick]
                 /\ Emit(pre \o <<Tu(ph, k)>>)
                 /\ lastTu' = [at |-> now, tid |-> k, ph |-> ph,
                               quiet |-> FALSE]
            ELSE /\ tk' = [tk EXCEPT ![i] =
                        [IdleTick EXCEPT !.pc = "emit", !.phase = ph,
                                         !.previous = lastBroadcastPhase]]
                 /\ Emit(pre)
                 /\ UNCHANGED lastTu
    ELSE /\ UNCHANGED lastBroadcastPhase
         /\ tk' = [tk EXCEPT ![i] = IdleTick]
         /\ Emit(pre)
         /\ lastTu' = IF lastTu.at = now /\ lastTu.tid = k /\ lastTu.ph = ph
                      THEN [lastTu EXCEPT !.quiet = TRUE]
                      ELSE lastTu

(* await getTournamentPhase(currentTournamentKey): 'n' without a store    *)
(* call when there is no tournament                                       *)
TickPhaseCall(i, k, pre) ==
    IF k = NoKey
    THEN TickCompare(i, k, "n", pre)
    ELSE /\ tk' = [tk EXCEPT ![i] =
                [IdleTick EXCEPT !.pc = "phase",
                                 !.phase = getTournamentPhase(k)]]
         /\ Emit(pre)
         /\ UNCHANGED <<lastBroadcastPhase, lastTu>>

(* the callback's code up to the first store call *)
TickBegin(i) ==
    LET cur == currentTournamentKey
        newKey == getTournamentKey(now)
    IN  /\ tk[i].pc = "idle"
        /\ IF IsCustom(cur)
           THEN /\ tk' = [tk EXCEPT ![i] =
                        [IdleTick EXCEPT !.pc = "timing", !.custom = TRUE,
                            !.timing = getCustomTournamentTiming(cur)]]
                /\ Emit(<<>>)
                /\ UNCHANGED <<currentTournamentKey, lastBroadcastPhase,
                               lastTu>>
           ELSE IF newKey # cur /\ cur # NoKey
           THEN /\ tk' = [tk EXCEPT ![i] =
                        [IdleTick EXCEPT !.pc = "end", !.newKey = newKey,
                                         !.endKey = cur]]
                /\ Emit(<<>>)
                /\ UNCHANGED <<currentTournamentKey, lastBroadcastPhase,
                               lastTu>>
           ELSE /\ currentTournamentKey' =
                        IF newKey # cur
                        THEN IF autoTournamentEnabled THEN newKey ELSE cur
                        ELSE cur
                /\ TickPhaseCall(i, currentTournamentKey', <<>>)
        /\ UNCHANGED <<history, archived, lastArchivedTournament>>
        /\ UNCHANGED TickVars

(* the interval fires, whether or not an earlier run has finished *)
TickStart(i) ==
    /\ now >= nextTick
    /\ \A j \in TickRuns : j < i => tk[j].pc # "idle"
    /\ nextTick' = now + TICK_PERIOD_MS
    /\ TickBegin(i)

(* the callback called directly, one call after the other has returned *)
TickCall ==
    /\ \A j \in TickRuns : tk[j].pc = "idle"
    /\ UNCHANGED nextTick
    /\ TickBegin(1)

(* after getCustomTournamentTiming(currentTournamentKey) *)
TickTiming(i) ==
    LET custom == tk[i].timing
        total == custom.playTime
                    + (IF custom.leaderboardTime # 0 THEN custom.leaderboardTime
                       ELSE TOURNAMENT_DURATION_MS - custom.playTime)
    IN  /\ tk[i].pc = "timing"
        /\ IF custom # NoTiming /\ now - custom.startTime < total
           THEN TickPhaseCall(i, currentTournamentKey, <<>>)
           ELSE /\ tk' = [tk EXCEPT ![i] =
                        [IdleTick EXCEPT !.pc = "end", !.custom = TRUE,
                                         !.endKey = currentTournamentKey]]
                /\ Emit(<<>>)
                /\ UNCHANGED <<lastBroadcastPhase, lastTu>>
        /\ UNCHANGED <<currentTournamentKey, history, archived,
                       lastArchivedTournament, nextTick>>
        /\ UNCHANGED TickVars

(* after endTournament: the key is cleared and, with auto-rotation on,   *)
(* set to the slot key: the one computed before the call in the rolling  *)
(* branch, a fresh one in the custom branch                              *)
TickEnd(i) ==
    LET h == tk[i]
    IN  /\ h.pc = "end"
        /\ history' = EndHistory(history, h.endKey)
        /\ archived' = EndArchived(archived, h.endKey)
        /\ currentTournamentKey' =
                IF autoTournamentEnabled
                THEN IF h.custom THEN getTournamentKey(now) ELSE h.newKey
                ELSE NoKey
        /\ TickPhaseCall(i, currentTournamentKey', EndMsgs(h.endKey))
        /\ UNCHANGED <<lastArchivedTournament, nextTick>>
        /\ UNCHANGED TickVars

(* after getTournamentPhase *)
TickPhase(i) ==
    /\ tk[i].pc = "phase"
    /\ TickCompare(i, currentTournamentKey, tk[i].phase, <<>>)
    /\ UNCHANGED <<currentTournamentKey, history, archived,
                   lastArchivedTournament, nextTick>>
    /\ UNCHANGED TickVars

(* after the time-left calls: 'tu' and the archive at the end of play *)
TickEmit(i) ==
    LET h == tk[i]
        key == currentTournamentKey
        archive == /\ h.previous = "p" /\ h.phase = "l"
                   /\ key # NoKey /\ lastArchivedTournament # key
    IN  /\ h.pc = "emit"
        /\ tk' = [tk EXCEPT ![i] = IdleTick]
        /\ Emit(<<Tu(h.phase, key)>>)
        /\ lastTu' = [at |-> now, tid |-> key, ph |-> h.phase, quiet |-> FALSE]
        /\ lastArchivedTournament' = IF archive THEN key
                                     ELSE lastArchivedTournament
        /\ archived' = IF archive /\ redisUp THEN Append(archived, key)
                       ELSE archived
        /\ UNCHANGED <<currentTournamentKey, lastBroadcastPhase, history,
                       nextTick>>
        /\ UNCHANGED TickVars

TickSteps ==
    \/ \E i \in TickRuns : TickStart(i)
    \/ \E i \in TickRuns : TickTiming(i)
    \/ \E i \in TickRuns : TickEnd(i)
    \/ \E i \in TickRuns : TickPhase(i)
    \/ \E i \in TickRuns : TickEmit(i)

----------------------------------------------------------------------------
(* Schedule checker and admin endpoints *)

Due(sch) ==
    /\ now - sch.scheduledTime >= -SCHEDULE_EARLY_MS
    /\ now - sch.scheduledTime <= SCHEDULE_LATE_MS

TimingKeys(tid, cfg, hasStart) ==
    [tid |-> tid, duration |-> cfg.duration, playTime |-> cfg.playTime,
     leaderboardTime |-> cfg.leaderboardTime, startTime |-> now,
     hasStart |-> hasStart, exp |-> now + CeilDiv(cfg.duration, 1000) * 1000]

NewTournament(id, cfg) ==
    [Msg EXCEPT !.ev = "tournament_new", !.tid = id]

SchedCheck ==
    LET dues == {i \in 1 .. Len(scheduled) : Due(scheduled[i])}
        i == CHOOSE x \in dues : \A y \in dues : x <= y
        sch == scheduled[i]
        newId == [kind |-> "scheduled", at |-> now, sched |-> sch.id]
    IN  /\ now >= nextSchedule
        /\ nextSchedule' = now + SCHEDULE_PERIOD_MS
        /\ IF redisUp /\ dues # {}
           THEN /\ history' = EndHistory(history, currentTournamentKey)
                /\ archived' = EndArchived(archived, currentTournamentKey)
                /\ currentTournamentKey' = newId
                /\ timing' = {r \in timing : r.tid # newId}
                                \cup {TimingKeys(newId, sch, TRUE)}
                /\ scheduled' = SelectSeq(scheduled, LAMBDA x : x.id # sch.id)
                /\ Emit(EndMsgs(currentTournamentKey)
                            \o <<NewTournament(newId, sch)>>)
           ELSE /\ UNCHANGED <<history, archived, currentTournamentKey, timing,
                               scheduled>>
                /\ Emit(<<>>)
        /\ UNCHANGED auxVars
        /\ UNCHANGED <<now, advances, events, admins, connected, requestCounts,
                       sessVars, cacheVars, autoTournamentEnabled,
                       lastBroadcastPhase, lastArchivedTournament, nextTick,
                       nextSweep, redisUp, zsets, targets, igh, sph, trueWindow,
                       bestWritten, lastStart, lastResult, prevResult>>

DefaultConfig ==
    [duration |-> TOURNAMENT_DURATION_MS, playTime |-> PLAY_TIME_MS,
     leaderboardTime |-> LEADERBOARD_TIME_MS]

Configs == {DefaultConfig}

(* POST /api/admin/tournament/schedule *)
Schedule(scheduledTime, cfg) ==
    /\ admins' = admins + 1
    /\ scheduled' =
        IF redisUp
        THEN Keep(<<[id |-> now, scheduledTime |-> scheduledTime,
                     duration |-> cfg.duration, playTime |-> cfg.playTime,
                     leaderboardTime |-> cfg.leaderboardTime]>> \o scheduled,
                  SCHEDULE_KEEP)
        ELSE scheduled
    /\ Emit(<<>>)
    /\ UNCHANGED auxVars
    /\ UNCHANGED <<now, advances, events, connected, requestCounts, sessVars,
                   cacheVars, coordVars, timerVars, redisUp, zsets, targets,
                   timing, history, archived, igh, sph, trueWindow, bestWritten,
                   lastStart, lastResult, prevResult>>

(* POST /api/admin/tournament/create: the startTime key is not written *)
CreateManual(cfg) ==
    LET newId == [kind |-> "manual", at |-> now, sched |-> 0]
    IN  /\ admins' = admins + 1
        /\ IF redisUp
           THEN /\ history' = EndHistory(history, currentTournamentKey)
                /\ archived' = EndArchived(archived, currentTournamentKey)
                /\ timing' = {r \in timing : r.tid # newId}
                                \cup {TimingKeys(newId, cfg, FALSE)}
                /\ currentTournamentKey' = newId
                /\ Emit(EndMsgs(currentTournamentKey)
                            \o <<NewTournament(newId, cfg)>>)
           ELSE /\ UNCHANGED <<history, archived, timing, currentTournamentKey>>
                /\ Emit(<<>>)
        /\ UNCHANGED auxVars
        /\ UNCHANGED <<now, advances, events, connected, requestCounts,
                       sessVars, cacheVars, autoTournamentEnabled,
                       lastBroadcastPhase, lastArchivedTournament, timerVars,
                       redisUp, zsets, targets, scheduled, igh, sph, trueWindow,
                       bestWritten, lastStart, lastResult, prevResult>>

(* POST /api/admin/tournament/toggle-auto *)
ToggleAuto ==
    /\ admins' = admins + 1
    /\ autoTournamentEnabled' = ~autoTournamentEnabled
    /\ Emit(<<>>)
    /\ UNCHANGED auxVars
    /\ UNCHANGED <<now, advances, events, connected, requestCounts, sessVars,
                   cacheVars, currentTournamentKey, lastBroadcastPhase,
                   lastArchivedTournament, timerVars, redisUp, redisVars,
                   archived, igh, sph, trueWindow, bestWritten, lastStart,
                   lastResult, prevResult>>

----------------------------------------------------------------------------
(* Rate limiter sweep, the clock, the store's availability *)

Sweep ==
    /\ now >= nextSweep
    /\ nextSweep' = now + SWEEP_PERIOD_MS
    /\ requestCounts' = [k \in DOMAIN requestCounts |-> <<>>]
    /\ Emit(<<>>)
    /\ UNCHANGED auxVars
    /\ UNCHANGED <<now, advances, events, admins, connected, sessVars,
                   cacheVars, coordVars, nextTick, nextSchedule, redisUp,
                   redisVars, archived, igh, sph, trueWindow, bestWritten,
                   lastStart, lastResult, prevResult>>

AdvanceTime(d) ==
    /\ advances' = advances + 1
    /\ now' = now + d
    /\ Emit(<<>>)
    /\ UNCHANGED auxVars
    /\ UNCHANGED <<events, admins, connected, requestCounts, sessVars,
                   cacheVars, coordVars, timerVars, redisUp, redisVars,
                   archived, igh, sph, trueWindow, bestWritten, lastStart,
                   lastResult, prevResult>>

(* the store becomes unreachable, or reachable again; while it is *)
(* unreachable every call to it is rejected                       *)
StoreChange ==
    /\ redisUp' = ~redisUp
    /\ Emit(<<>>)
    /\ UNCHANGED auxVars
    /\ UNCHANGED <<now, advances, events, admins, connected, requestCounts,
                   sessVars, cacheVars, coordVars, timerVars, redisVars,
                   archived, igh, sph, trueWindow, bestWritten, lastStart,
                   lastResult, prevResult>>

----------------------------------------------------------------------------
(* Specifications *)

(* hp: what the store holds under the health keys when the server starts *)
InitStore(clock, hp) ==
    /\ now = clock
    /\ advances = 0
    /\ events = 0
    /\ admins = 0
    /\ connected = Conns
    /\ requestCounts = [k \in Conns \X Events |-> <<>>]
    /\ sessionStore = [c \in Conns |-> NoSession]
    /\ gameIntervals = {}
    /\ activeUsers = [c \in Conns |-> 0]
    /\ cachedTop3 = <<>>
    /\ lastLeaderboardUpdate = 0
    /\ currentCachedTournamentId = NoKey
    /\ currentTournamentKey = NoKey
    /\ autoTournamentEnabled = TRUE
    /\ lastBroadcastPhase = ""
    /\ lastArchivedTournament = NoKey
    /\ nextTick = clock + TICK_PERIOD_MS
    /\ nextSchedule = clock + SCHEDULE_PERIOD_MS
    /\ nextSweep = clock + SWEEP_PERIOD_MS
    /\ redisUp = TRUE
    /\ zsets = {}
    /\ targets = {}
    /\ timing = {}
    /\ scheduled = <<>>
    /\ history = <<>>
    /\ archived = <<>>
    /\ igh = [c \in Conns |-> IdleIg]
    /\ sph = [c \in Conns |-> IdleSp]
    /\ out = <<>>
    /\ trueWindow = [k \in Conns \X Events |-> <<>>]
    /\ phaseSeen = {}
    /\ bestWritten = {}
    /\ lastStart = [c \in Conns |-> NoStart]
    /\ lastResult = [c \in Conns |-> NoResult]
    /\ prevResult = [c \in Conns |-> NoResult]
    /\ tk = [i \in TickRuns |-> IdleTick]
    /\ sth = [c \in Conns |-> IdleSt]
    /\ health = [u \in Users |-> hp]
    /\ healthRegen = [u \in Users |-> NoStr]
    /\ lastTu = NoTu
    /\ daily = <<>>
    /\ dailyExecuted = {}
    /\ dch = {}
    /\ liveIntervals = [c \in Conns |-> 0]

InitAt(clock) == InitStore(clock, NoStr)

Init == \E clock \in StartClocks : InitAt(clock)

(* the continuations of suspended handlers *)
Handlers ==
    \/ \E c \in Conns : IgCache(c)
    \/ \E c \in Conns : IgGet(c)
    \/ \E c \in Conns : IgScore(c)
    \/ \E c \in Conns : IgReply(c)
    \/ \E c \in Conns : SpReply(c)

(* the events clients send *)
Client(cs, us, ms, cvs) ==
    \/ \E c \in cs, u \in us, m \in ms : IgRecv(c, u, m)
    \/ \E c \in cs, cv \in cvs : St(c, cv)
    \/ \E c \in cs, cv \in cvs : SpRecv(c, cv)

Admin ==
    \/ \E cfg \in Configs : Schedule(now, cfg)
    \/ \E cfg \in Configs : CreateManual(cfg)
    \/ ToggleAuto

Clock(steps, n) == advances < n /\ \E d \in steps : AdvanceTime(d)

(* every socket, player and mode, the admin endpoints, all timers *)
Next ==
    \/ Handlers
    \/ Tick
    \/ SchedCheck
    \/ Sweep
    \/ events < MaxEvents /\ Client(Conns, Users, Modes, ClientValues)
    \/ \E c \in Conns : Disconnect(c)
    \/ admins < MaxAdmin /\ Admin
    \/ Clock(TimeSteps, MaxAdvances)

Spec == Init /\ [][Next]_vars

(* one socket in tournament mode across the phase and slot boundaries *)
NextOne ==
    \/ Handlers
    \/ Tick
    \/ events < MaxEvents /\ Client({1}, {1}, {"t"}, {0})
    \/ Clock({5000}, MaxAdvances)

SpecOne == Init /\ [][NextOne]_vars

(* one socket in practice mode: a game and retries without a new init *)
NextRetry ==
    \/ IgCache(1)
    \/ IgReply(1)
    \/ SpReply(1)
    \/ events < MaxRetries /\ Client({1}, {1}, {"p"}, {0})
    \/ Clock(TimeSteps, MaxAdvances)

SpecRetry == InitAt(TOURNAMENT_DURATION_MS) /\ [][NextRetry]_vars

(* one socket in practice mode, the client sending different values *)
NextClient ==
    \/ IgCache(1)
    \/ IgReply(1)
    \/ SpReply(1)
    \/ events < MaxRetries /\ Client({1}, {1}, {"p"}, ClientValues)
    \/ Clock({5000}, MaxAdvances)

SpecClient == InitAt(TOURNAMENT_DURATION_MS) /\ [][NextClient]_vars

(* two sockets of one player in tournament mode, each following the *)
(* protocol: init once, then start and stop in turn                 *)
NextTwo ==
    \/ Handlers
    \/ events < MaxPair /\ \E c \in Conns :
            sessionStore[c] = NoSession /\ IgRecv(c, 1, "t")
    \/ events < MaxPair /\ \E c \in Conns :
            sessionStore[c].status \in {"ready", "finished"} /\ St(c, 0)
    \/ events < MaxPair /\ \E c \in Conns :
            sessionStore[c].status = "running" /\ SpRecv(c, 0)
    \/ Clock({5000}, MaxAdvances)

SpecTwo == InitAt(TOURNAMENT_DURATION_MS) /\ [][NextTwo]_vars

(* inits of one socket in tournament mode while the admin switches the *)
(* auto-rotation and creates tournaments                                *)
NextCoord ==
    \/ IgCache(1)
    \/ IgGet(1)
    \/ IgScore(1)
    \/ IgReply(1)
    \/ Tick
    \/ events < MaxInits /\ IgRecv(1, 1, "t")
    \/ admins < MaxAdmin /\ ToggleAuto
    \/ admins < MaxAdmin /\ \E cfg \in Configs : CreateManual(cfg)
    \/ now < nextTick /\ Clock({TICK_PERIOD_MS}, MaxAdvances)

SpecCoord == InitAt(TOURNAMENT_DURATION_MS) /\ [][NextCoord]_vars

(* one socket sending bursts of one kind of event, the counters swept *)
NextBurst ==
    \/ Sweep
    \/ events < MaxBurst /\ \E cv \in {0} : St(1, cv)
    \/ Clock(RLSteps, MaxAdvances + 1)

SpecBurst == InitAt(TOURNAMENT_DURATION_MS) /\ [][NextBurst]_vars

(* the tick run step by step, the schedule checker and the admin *)
(* endpoints, no sockets                                          *)
NextTick ==
    \/ TickSteps
    \/ SchedCheck
    \/ admins < MaxAdmin /\ Admin
    \/ Clock({TICK_PERIOD_MS, LEADERBOARD_TIME_MS}, MaxAdvances)

(* two players, one socket each, in tournament mode, each following the *)
(* protocol, player 1 joining first; the store answers before the      *)
(* clock moves on                                                      *)
NextRank ==
    \/ Handlers
    \/ events < MaxRank /\ \E c \in Conns :
            /\ sessionStore[c] = NoSession
            /\ \A d \in Conns : d < c => sessionStore[d] # NoSession
            /\ IgRecv(c, c, "t")
    \/ events < MaxRank /\ \E c \in Conns :
            sessionStore[c].status \in {"ready", "finished"} /\ St(c, 0)
    \/ events < MaxRank /\ \E c \in Conns :
            sessionStore[c].status = "running" /\ SpRecv(c, 0)
    \/ /\ \A c \in Conns : igh[c].pc = "idle" /\ sph[c].pc = "idle"
       /\ Clock({5000}, MaxAdvances)

SpecRank == InitAt(TOURNAMENT_DURATION_MS) /\ [][NextRank]_vars

(* one socket in tournament mode following the protocol across a slot *)
(* rollover, with the coordinator tick; a tick that is due runs before *)
(* the clock moves on                                                  *)
NextCache ==
    \/ IgCache(1)
    \/ IgGet(1)
    \/ IgScore(1)
    \/ IgReply(1)
    \/ SpReply(1)
    \/ Tick
    \/ events < MaxPair /\ sessionStore[1].status \in {"none", "finished"}
            /\ IgRecv(1, 1, "t")
    \/ events < MaxPair /\ sessionStore[1].status = "ready" /\ St(1, 0)
    \/ events < MaxPair /\ sessionStore[1].status = "running" /\ SpRecv(1, 0)
    \/ now < nextTick /\ Clock({TICK_PERIOD_MS, TOURNAMENT_DURATION_MS}, MaxAdvances)

SpecCache == InitAt(TOURNAMENT_DURATION_MS) /\ [][NextCache]_vars

(* whether the client has sent at most one event of every kind but e *)
Mostly(c, e) ==
    \A f \in Events \ {e} : Len(requestCounts[<<c, f>>]) <= 1

(* one socket in tournament mode whose client repeats one kind of event *)
(* beyond what the rate limiter admits, after at most one event of each *)
(* other kind                                                           *)
NextDeny ==
    \/ IgCache(1)
    \/ IgGet(1)
    \/ IgScore(1)
    \/ IgReply(1)
    \/ SpReply(1)
    \/ events < MaxDeny /\ Mostly(1, "ig") /\ IgRecv(1, 1, "t")
    \/ events < MaxDeny /\ Mostly(1, "st") /\ St(1, 0)
    \/ events < MaxDeny /\ Mostly(1, "sp") /\ SpRecv(1, 0)
    \/ Clock({5000}, MaxAdvances)

SpecDeny == InitAt(TOURNAMENT_DURATION_MS) /\ [][NextDeny]_vars

(* one socket whose starts are gated by the wallet, the player holding *)
(* nothing, one or two points when the server starts; one start is in  *)
(* progress at a time                                                  *)
NextHealth ==
    \/ IgCache(1)
    \/ IgGet(1)
    \/ IgScore(1)
    \/ IgReply(1)
    \/ events < MaxStarts /\ sessionStore[1] = NoSession /\ igh[1].pc = "idle"
            /\ \E m \in Modes : IgRecv(1, 1, m)
    \/ events < MaxStarts /\ sth[1].pc = "idle" /\ StGate(1)
    \/ StHealth(1)
    \/ StSet(1)
    \/ StRegen(1)
    \/ Disconnect(1)
    \/ Clock({5000}, MaxAdvances)

SpecHealth ==
    /\ \E hp \in {NoStr, NumToStr(1), NumToStr(2)} :
            InitStore(TOURNAMENT_DURATION_MS, hp)
    /\ [][NextHealth]_vars

(* the tick and the admin switches with a store that comes and goes *)
NextOutage ==
    \/ Tick
    \/ StoreChange
    \/ admins < MaxAdmin /\ ToggleAuto
    \/ admins < MaxAdmin /\ \E cfg \in Configs : CreateManual(cfg)
    \/ Clock({TICK_PERIOD_MS, LEADERBOARD_TIME_MS}, MaxAdvances)

SpecOutage == Init /\ [][NextOutage]_vars

(* one socket in tournament mode following the protocol while the *)
(* store comes and goes                                           *)
NextLoss ==
    \/ IgCache(1)
    \/ IgGet(1)
    \/ IgScore(1)
    \/ IgReply(1)
    \/ SpReply(1)
    \/ StoreChange
    \/ events < MaxPair /\ sessionStore[1] = NoSession /\ IgRecv(1, 1, "t")
    \/ events < MaxPair /\ sessionStore[1].status \in {"ready", "finished"}
            /\ St(1, 0)
    \/ events < MaxPair /\ sessionStore[1].status = "running" /\ SpRecv(1, 0)
    \/ Clock(TimeSteps, MaxAdvances)

SpecLoss == InitAt(TOURNAMENT_DURATION_MS) /\ [][NextLoss]_vars

(* the tick across slot rollovers while the admin switches the     *)
(* auto-rotation and creates tournaments; a tick that is due runs  *)
(* before the clock moves on                                        *)
NextAutoOff ==
    \/ Tick
    \/ admins < MaxSwitch /\ ToggleAuto
    \/ admins < MaxSwitch /\ \E cfg \in Configs : CreateManual(cfg)
    \/ now < nextTick
            /\ Clock({TICK_PERIOD_MS, TOURNAMENT_DURATION_MS}, MaxAdvances)

SpecAutoOff ==
    InitAt(2 * TOURNAMENT_DURATION_MS - 5000) /\ [][NextAutoOff]_vars

(* one socket sending init, start and stop in any order and either *)
(* mode; the store answers before the clock moves on               *)
NextReinit ==
    \/ IgCache(1)
    \/ IgGet(1)
    \/ IgScore(1)
    \/ IgReply(1)
    \/ SpReply(1)
    \/ events < MaxReinit /\ Client({1}, {1}, Modes, {0})
    \/ igh[1].pc = "idle" /\ sph[1].pc = "idle" /\ Clock({5000}, MaxAdvances)

SpecReinit == InitAt(TOURNAMENT_DURATION_MS) /\ [][NextReinit]_vars

(* two sockets of one player in tournament mode whose starts are gated *)
(* by the wallet, the player holding one point when the server starts; *)
(* socket 1 inits first and the store answers before the clock moves   *)
WalletAtStart == NumToStr(1)

NextWallet ==
    \/ \E c \in Conns : IgCache(c)
    \/ \E c \in Conns : IgGet(c)
    \/ \E c \in Conns : IgScore(c)
    \/ \E c \in Conns : IgReply(c)
    \/ events < MaxPair /\ \E c \in Conns :
            /\ sessionStore[c] = NoSession /\ igh[c].pc = "idle"
            /\ \A d \in Conns : d < c => sessionStore[d] # NoSession
            /\ IgRecv(c, 1, "t")
    \/ events < MaxPair /\ \E c \in Conns :
            sessionStore[c] # NoSession /\ sth[c].pc = "idle" /\ StGate(c)
    \/ \E c \in Conns : StHealth(c)
    \/ \E c \in Conns : StSet(c)
    \/ \E c \in Conns : StRegen(c)
    \/ /\ \A c \in Conns : igh[c].pc = "idle" /\ sth[c].pc = "idle"
       /\ Clock({5000}, MaxAdvances)

SpecWallet ==
    InitStore(TOURNAMENT_DURATION_MS, WalletAtStart) /\ [][NextWallet]_vars

(* the tick from the start of a slot through the end of its play time, *)
(* the schedule checker and the admin endpoints                        *)
NextArchive ==
    \/ Tick
    \/ SchedCheck
    \/ admins < MaxAdmin /\ Admin
    \/ Clock({TICK_PERIOD_MS, PLAY_TIME_MS}, MaxAdvances)

SpecArchive == InitAt(TOURNAMENT_DURATION_MS) /\ [][NextArchive]_vars

(* the tick callback called one call after the other at any moment, and *)
(* the admin endpoints                                                  *)
NextTickCall ==
    \/ TickCall
    \/ TickTiming(1)
    \/ TickEnd(1)
    \/ TickPhase(1)
    \/ TickEmit(1)
    \/ SchedCheck
    \/ admins < MaxAdmin /\ Admin
    \/ Clock({TICK_PERIOD_MS, LEADERBOARD_TIME_MS}, MaxAdvances)

SpecTickCall == Init /\ [][NextTickCall]_vars

SpecTick == InitAt(TOURNAMENT_DURATION_MS + PLAY_TIME_MS - 5000) /\ [][NextTick]_vars

(* the same with fair scheduling: the interval timer fires when it is *)
(* due, every awaited call of a tick returns, and time passes        *)
SpecTickFair ==
    /\ SpecTick
    /\ WF_vars(TickSteps)
    /\ WF_vars(Clock({TICK_PERIOD_MS, LEADERBOARD_TIME_MS}, MaxAdvances))

----------------------------------------------------------------------------
(* Properties *)

(* an 'sp' of socket c passes the rate limiter in this step *)
StopHandled(c) == trueWindow'[<<c, "sp">>] # trueWindow[<<c, "sp">>]

(* an 'st' of socket c passes the rate limiter in this step *)
StartHandled(c) == trueWindow'[<<c, "st">>] # trueWindow[<<c, "st">>]

(* an 'ig' of socket c passes the rate limiter in this step *)
InitHandled(c) == trueWindow'[<<c, "ig">>] # trueWindow[<<c, "ig">>]

GrTo(msgs, c) == \E i \in 1 .. Len(msgs) : msgs[i].ev = "gr" /\ msgs[i].to = c

Resolves(c) ==
    \/ InitHandled(c) /\ CacheValid
    \/ igh[c].pc = "cache" /\ igh'[c].pc # "cache"

NoTournamentReply(msgs, c) ==
    /\ Len(msgs) = 1
    /\ msgs[1].ev = "grd" /\ msgs[1].to = c
    /\ msgs[1].noTournament /\ msgs[1].tid = NoKey /\ msgs[1].t = 0

(* C9: a TOURNAMENT-mode init resolved while no tournament is current and *)
(* auto-rotation is disabled replies with the no-tournament result (id    *)
(* null, target 0), stores no target, sets no current tournament, creates *)
(* no session and leaves nothing of the init pending.                     *)
C9_NoTournamentNoTarget ==
    [][\A c \in Conns :
        /\ Resolves(c)
        /\ currentTournamentKey = NoKey /\ ~autoTournamentEnabled
        => /\ NoTournamentReply(out', c)
           /\ targets' = targets
           /\ currentTournamentKey' = NoKey
           /\ sessionStore' = sessionStore
           /\ activeUsers' = activeUsers
           /\ igh'[c] = IdleIg
      ]_vars

(* the no-tournament reply just sent, nothing created *)
C9_Witness ==
    /\ NoTournamentReply(out, 1)
    /\ ~autoTournamentEnabled
    /\ currentTournamentKey = NoKey
    /\ sessionStore[1] = NoSession
    /\ targets = {}

(* C2: the ranking store holds at most one entry per (tournament id,     *)
(* player) and its score is the lowest score ever written for the pair.   *)
C2_StoredIsMinimum ==
    /\ \A e, f \in zsets : e.tid = f.tid /\ e.user = f.user => e = f
    /\ \A e \in zsets : \A r \in bestWritten :
            r.tid = e.tid /\ r.user = e.user => e.score = r.score

(* C3: a scoring stop reads and writes the ranking under the tournament   *)
(* id stored in the session and scores against the session's target.      *)
C3_StopUsesLockedId ==
    [][\A c \in Conns :
        StopHandled(c) /\ sessionStore[c].status = "running" =>
            /\ sph'[c].ctid = sessionStore[c].tournamentId
            /\ sph'[c].target = sessionStore[c].targetTime
            /\ \A e \in zsets' \ zsets : e.tid = sessionStore[c].tournamentId
      ]_vars

(* C4: TOURNAMENT-mode sessions bound to the same tournament id have the  *)
(* same target.                                                           *)
C4_OneTargetPerTournament ==
    \A c, d \in Conns :
        /\ sessionStore[c].mode = "t" /\ sessionStore[d].mode = "t"
        /\ sessionStore[c].tournamentId = sessionStore[d].tournamentId
        => sessionStore[c].targetTime = sessionStore[d].targetTime

PhaseRank(ph) ==
    CASE ph = "n" -> 0 [] ph = "p" -> 1 [] ph = "l" -> 2 [] ph = "e" -> 3
      [] OTHER -> 0

(* C5: the phase reported for a tournament id never goes back to an       *)
(* earlier phase of NONE, PLAY, LEADERBOARD, ENDED.                       *)
C5_PhaseNeverRegresses ==
    [][\A r \in phaseSeen : \A q \in phaseSeen' :
            q.tid = r.tid => PhaseRank(q.ph) >= PhaseRank(r.ph)]_vars

(* C8: in every reachable state, sweeps included, the admissions of one   *)
(* (socket, event kind) that lie within one window of each other number   *)
(* at most max.                                                           *)
C8_BudgetPerWindow ==
    \A k \in DOMAIN trueWindow : Len(trueWindow[k]) <= RATE_LIMITS(k[2]).max

(* whether tournament tid is in its play time now: a rolling id by its    *)
(* own slot, a custom id by its stored timing                             *)
InPlayTime(tid) ==
    IF tid.kind = "auto"
    THEN tid.at <= now /\ now < tid.at + PLAY_TIME_MS
    ELSE /\ getCustomTournamentTiming(tid) # NoTiming
         /\ now - getCustomTournamentTiming(tid).startTime
                < getCustomTournamentTiming(tid).playTime

(* C11: a stop handled while the session's tournament is not in its play  *)
(* time (LEADERBOARD, or ended) writes nothing to the ranking store.      *)
C11_NoScoreOutsidePlay ==
    [][\A c \in Conns :
        /\ StopHandled(c)
        /\ sessionStore[c].mode = "t"
        /\ ~InPlayTime(sessionStore[c].tournamentId)
        => zsets' = zsets]_vars

(* C12: at most one run of the coordinator tick is in progress: a run    *)
(* starts only when the previous one has finished all its store calls.   *)
C12_TickNeverOverlaps ==
    Cardinality({i \in TickRuns : tk[i].pc # "idle"}) <= 1

(* the custom tournament k still has play or leaderboard time left, by   *)
(* the configuration written when it became current                      *)
CustomTimeLeft(k) ==
    \E r \in timing :
        /\ r.tid = k
        /\ now - k.at < r.playTime + r.leaderboardTime

(* C13: a step of a tick run taken while a custom tournament is current  *)
(* and has play or leaderboard time left does not replace it by the      *)
(* rolling-slot key or by no tournament.                                 *)
C13_CustomKeepsPriority ==
    [][/\ tk' # tk
       /\ IsCustom(currentTournamentKey)
       /\ CustomTimeLeft(currentTournamentKey)
       => \/ currentTournamentKey' = currentTournamentKey
          \/ IsCustom(currentTournamentKey')]_vars

(* the 'tu' broadcasts of a step *)
TuOf(msgs) == {msgs[j] : j \in {x \in 1 .. Len(msgs) : msgs[x].ev = "tu"}}

(* C14: a tick run never repeats the 'tu' of the last one while no time  *)
(* has elapsed and the tournament is the same: the later run finds the   *)
(* phase equal to lastBroadcastPhase and stays silent.                   *)
C14_NoDuplicateTu ==
    [][tk' # tk =>
        \A m \in TuOf(out') :
            ~(lastTu.at = now /\ lastTu.tid = m.tid /\ lastTu.ph = m.ph)]_vars

C14_Witness ==
    /\ lastTu.quiet
    /\ lastTu.at = now
    /\ lastTu.tid = currentTournamentKey
    /\ lastTu.tid # NoKey

(* the entries of one tournament *)
SameTournament(e, f) == e \in zsets /\ f \in zsets /\ e.tid = f.tid

(* the answers of the rank and top-N queries of tournament tid *)
RankAnswers(tid) ==
    [ranks |-> [u \in Users |-> ZRank(tid, u)], top |-> ZRange(tid, 2)]

C16_NoPushAfterDisconnect ==
    \A c \in Conns : c \notin connected => c \notin gameIntervals

(* the step in which the health key of a tournament start arrives and  *)
(* the wallet is empty                                                 *)
StartDenied(c) ==
    /\ sth[c].pc = "health"
    /\ sth'[c] # sth[c]
    /\ sth[c].ok
    /\ ParseInt(sth[c].got) <= 0

(* C17: a tournament start that finds the wallet empty replies no_health *)
(* to its socket and changes neither the sessions, nor the health keys,  *)
(* nor the push intervals.                                               *)
C17_EmptyWalletNoStart ==
    [][\A c \in Conns :
        StartDenied(c) =>
            /\ out' = (IF c \in connected THEN <<NoHealth(c)>> ELSE <<>>)
            /\ sessionStore' = sessionStore
            /\ health' = health
            /\ healthRegen' = healthRegen
            /\ gameIntervals' = gameIntervals]_vars

(* a denied start of a session that stays ready, no interval registered *)
C17_Witness ==
    /\ \E j \in 1 .. Len(out) : out[j].ev = "no_health" /\ out[j].to = 1
    /\ sessionStore[1].status = "ready"
    /\ sessionStore[1].mode = "t"
    /\ ParseInt(health[1]) = 0
    /\ sth[1].pc = "idle"
    /\ 1 \notin gameIntervals

(* the step in which socket c's event of kind e arrives *)
Received(c, e) ==
    CASE e = "ig" -> \E u \in Users, m \in Modes : IgRecv(c, u, m)
      [] e = "st" -> \E cv \in ClientValues : St(c, cv)
      [] e = "sp" -> \E cv \in ClientValues : SpRecv(c, cv)

(* the requests of socket c's event kind e counted in its window have *)
(* reached the budget                                                *)
BudgetSpent(c, e) ==
    Len(SelectSeq(requestCounts[<<c, e>>],
                  LAMBDA t : now - t < RATE_LIMITS(e).window))
        >= RATE_LIMITS(e).max

TooMany(c) ==
    [Msg EXCEPT !.ev = "to", !.to = c, !.err = "Too many requests. Please wait."]

(* C18: an init, start or stop the rate limiter denies changes neither  *)
(* the sessions, the push intervals, the active users, the ranking and  *)
(* target store, the leaderboard cache nor the coordinator, starts no   *)
(* handler and leaves the socket connected; a denied init emits the     *)
(* 'to' notice to its socket, a denied start or stop emits nothing.     *)
C18_DeniedEventDropped ==
    [][\A c \in Conns : \A e \in Events :
        Received(c, e) /\ BudgetSpent(c, e) =>
            /\ sessVars' = sessVars
            /\ redisVars' = redisVars
            /\ cacheVars' = cacheVars
            /\ coordVars' = coordVars
            /\ <<igh, sph>>' = <<igh, sph>>
            /\ connected' = connected
            /\ out' = (IF e = "ig" THEN <<TooMany(c)>> ELSE <<>>)]_vars

(* the eleventh stop at one clock value is denied after the first was *)
(* scored and written to the ranking                                  *)
C18_Witness ==
    /\ BudgetSpent(1, "sp")
    /\ advances = 0
    /\ events = RATE_LIMITS("sp").max + 3
    /\ Len(requestCounts[<<1, "ig">>]) = 1
    /\ Len(requestCounts[<<1, "st">>]) = 1
    /\ sessionStore[1].status = "finished"
    /\ zsets # {}

InvalidSession(c) ==
    [Msg EXCEPT !.ev = "game_over", !.to = c, !.err = "Invalid Session"]

(* C19: a start or stop admitted on a socket without a session changes  *)
(* neither sessions, push intervals, active users, the store, the cache *)
(* nor the coordinator and starts no handler; the stop replies          *)
(* 'Invalid Session' to that socket only, the start replies nothing.    *)
C19_NoSessionNoEffect ==
    [][\A c \in Conns : \A e \in {"st", "sp"} :
        /\ Received(c, e)
        /\ ~BudgetSpent(c, e)
        /\ sessionStore[c] = NoSession
        => /\ sessVars' = sessVars
           /\ redisVars' = redisVars
           /\ cacheVars' = cacheVars
           /\ coordVars' = coordVars
           /\ <<igh, sph>>' = <<igh, sph>>
           /\ out' = (IF e = "sp" THEN <<InvalidSession(c)>> ELSE <<>>)]_vars

(* the stop of a socket that never sent an init has been answered *)
C19_Witness ==
    /\ sessionStore[1] = NoSession
    /\ igh[1].pc = "idle"
    /\ Len(trueWindow[<<1, "sp">>]) > 0
    /\ Len(trueWindow[<<1, "ig">>]) = 0
    /\ out = <<InvalidSession(1)>>

(* C20: a stop reply of a tournament session that carries leaderboard   *)
(* entries carries a snapshot read from the ranking of the tournament   *)
(* that is active at the reply: the coordinator's current tournament or *)
(* the rolling slot of the clock. Stated for the replies sent at the    *)
(* clock value of their stop.                                           *)
C20_SnapshotOfActiveTournament ==
    [][\A c \in Conns :
        /\ sph[c].pc = "reply"
        /\ sph'[c].pc = "idle"
        /\ sph[c].mode = "t"
        /\ sph[c].gStop = now
        /\ \E j \in 1 .. Len(out') :
                out'[j].ev = "gr" /\ out'[j].to = c /\ out'[j].lb # <<>>
        => currentCachedTournamentId
                \in {currentTournamentKey, getTournamentKey(now)}]_vars

(* C21: a tick that runs while the store rejects its calls changes      *)
(* neither currentTournamentKey, lastBroadcastPhase,                    *)
(* lastArchivedTournament nor the tournament history and emits neither  *)
(* tou_end nor tu.                                                      *)
C21_FailedTickSkipped ==
    [][nextTick' # nextTick /\ ~redisUp =>
        /\ currentTournamentKey' = currentTournamentKey
        /\ lastBroadcastPhase' = lastBroadcastPhase
        /\ lastArchivedTournament' = lastArchivedTournament
        /\ history' = history
        /\ \A j \in 1 .. Len(out') : out'[j].ev \notin {"tou_end", "tu"}]_vars

(* a stop whose new best could not be written to the sorted set *)
WriteFailed(c) == sph[c].pc = "reply" /\ sph[c].nr /\ ~sph[c].wrote

(* C22: when the write of a new best fails in stop, the session's       *)
(* remembered best stays what it was before the stop, and the reply     *)
(* reports neither a new record nor the unwritten score as the best.    *)
C22_FailedWriteNotStored ==
    /\ [](\A c \in Conns : WriteFailed(c) =>
            sessionStore[c].bestScore = sph[c].gBest)
    /\ [][\A c \in Conns : WriteFailed(c) /\ sph'[c].pc = "idle" =>
            \A j \in 1 .. Len(out') :
                out'[j].ev = "gr" /\ out'[j].to = c =>
                    out'[j].nr = 0 /\ out'[j].bs = sph[c].gBest]_vars

(* the rolling slots SpecTick passes through *)
RollingIds ==
    {getTournamentKey(TOURNAMENT_DURATION_MS + PLAY_TIME_MS - 5000
                        + b * LEADERBOARD_TIME_MS) : b \in 0 .. MaxAdvances}

(* endTournament has run for k and k is no longer the current id *)
Ended(k) ==
    /\ currentTournamentKey # k
    /\ \E j \in 1 .. Len(history) : history[j].id = k

(* the same for the manual tournament the admin created *)
EndedManual ==
    /\ currentTournamentKey.kind # "manual"
    /\ \E j \in 1 .. Len(history) : history[j].id.kind = "manual"

C24_NoRollingWhileAutoOff ==
    [][/\ nextTick' # nextTick /\ ~autoTournamentEnabled
            /\ currentTournamentKey = NoKey =>
                currentTournamentKey' = NoKey /\ lastBroadcastPhase' = "n"
       /\ nextTick' # nextTick /\ ~autoTournamentEnabled /\ TickEnds =>
                currentTournamentKey' = NoKey
       /\ ~autoTournamentEnabled /\ ~autoTournamentEnabled'
            /\ currentTournamentKey'.kind = "auto" =>
                currentTournamentKey' = currentTournamentKey]_vars

(* auto-rotation is off, the rolling tournament has been ended by the *)
(* tick and nothing is current                                        *)
C24_Witness ==
    /\ ~autoTournamentEnabled
    /\ currentTournamentKey = NoKey
    /\ lastBroadcastPhase = "n"
    /\ Len(history) > 0
    /\ history[1].id.kind = "auto"

(* the 'ig' handler of socket c stores its session in this step *)
InitStores(c) == igh[c].pc \in {"idle", "cache", "score"} /\ igh'[c].pc = "reply"

(* C25: the step in which an init stores its session leaves the socket  *)
(* with a session of status READY, startTime 0, no scored result, and   *)
(* the target and tournament id the init resolved (the ones its reply   *)
(* carries), whatever the session was before; a stop handled while the  *)
(* session is READY changes neither session nor ranking store and       *)
(* produces no result.                                                  *)
C25_InitReplacesSession ==
    [][\A c \in Conns :
        /\ InitStores(c) =>
            /\ sessionStore'[c].status = "ready"
            /\ sessionStore'[c].startTime = 0
            /\ sessionStore'[c].scored = 0
            /\ sessionStore'[c].targetTime = igh'[c].target
            /\ sessionStore'[c].tournamentId = igh'[c].tid
            /\ sessionStore'[c].mode = igh'[c].m
        /\ igh[c].pc = "reply" /\ igh'[c].pc = "idle" =>
            \A j \in 1 .. Len(out') :
                out'[j].ev = "grd" /\ out'[j].to = c =>
                    out'[j].t = igh[c].target /\ out'[j].tid = igh[c].tid
        /\ StopHandled(c) /\ sessionStore[c].status = "ready" =>
            /\ sessionStore' = sessionStore
            /\ zsets' = zsets
            /\ sph' = sph
            /\ ~GrTo(out', c)]_vars

(* a game was scored, a later init replaced the session, and a stop *)
(* arrived after that init with no start in between                 *)
C25_Witness ==
    /\ lastResult[1].valid
    /\ sessionStore[1].status = "ready"
    /\ igh[1].pc = "idle" /\ sph[1].pc = "idle"
    /\ \E i \in 1 .. Len(trueWindow[<<1, "sp">>]) :
        /\ trueWindow[<<1, "sp">>][i] > lastResult[1].stop
        /\ \A j \in 1 .. Len(trueWindow[<<1, "ig">>]) :
                trueWindow[<<1, "sp">>][i] > trueWindow[<<1, "ig">>][j]

(* C26: a stop of a practice-mode session leaves every sorted set as it *)
(* is, when it is handled and when its reply is sent, and its 'gr'      *)
(* carries rank null and nr 0.                                          *)
C26_PracticeNeverRanked ==
    [][\A c \in Conns :
        /\ StopHandled(c) /\ sessionStore[c].mode = "p" =>
            zsets' = zsets /\ bestWritten' = bestWritten
        /\ sph[c].pc = "reply" /\ sph[c].mode = "p" /\ sph'[c].pc = "idle" =>
            /\ zsets' = zsets
            /\ \A j \in 1 .. Len(out') :
                out'[j].ev = "gr" /\ out'[j].to = c =>
                    out'[j].r = Null /\ out'[j].nr = 0]_vars

(* the reply of a scored practice stop that hit the target *)
C26_Witness ==
    /\ lastResult[1].valid
    /\ lastResult[1].mode = "p"
    /\ lastResult[1].d = 0
    /\ GrTo(out, 1)

(* C27: in tournament mode the reply of a scored stop has nr = 1 exactly *)
(* when the diff is strictly below the session's previous best or there  *)
(* was none, and bs = min(previous best, diff); no stop raises a         *)
(* session's best score.                                                 *)
C27_RecordIffStrictlyBetter ==
    /\ [](\A c \in Conns :
            LET l == lastResult[c]
            IN  l.valid /\ l.mode = "t" =>
                /\ l.nr = 1 <=> (l.best0 = Null \/ l.d < l.best0)
                /\ l.bs = IF l.best0 = Null \/ l.d < l.best0 THEN l.d
                          ELSE l.best0)
    /\ [][\A c \in Conns :
            StopHandled(c) /\ sessionStore[c].bestScore # Null =>
                /\ sessionStore'[c].bestScore # Null
                /\ sessionStore'[c].bestScore <= sessionStore[c].bestScore]_vars

(* a record followed by a stop with the same diff, which is no record *)
C27_Witness ==
    /\ lastResult[1].valid /\ lastResult[1].mode = "t"
    /\ prevResult[1].valid /\ prevResult[1].mode = "t"
    /\ prevResult[1].nr = 1
    /\ lastResult[1].nr = 0
    /\ lastResult[1].d = lastResult[1].best0

(* C28: when an init handler that read no target for its tournament id *)
(* resolves its target while another handler for the same id has        *)
(* already resolved one, it takes the same target.                      *)
C28_InterleavedInitsAgree ==
    [][\A c, d \in Conns :
        /\ c # d
        /\ igh[c].pc = "get" /\ igh[c].existing = NoStr
        /\ igh[d].pc \in {"score", "reply"} /\ igh[d].m = "t"
        /\ igh[c].tid = igh[d].tid
        /\ igh'[c].pc = "score"
        => igh'[c].target = igh[d].target]_vars

(* tournament sessions of player u that a start has made running *)
RunningOf(u) ==
    {c \in Conns : /\ sessionStore[c].userId = u
                   /\ sessionStore[c].mode = "t"
                   /\ sessionStore[c].status = "running"}

(* C29: for each player the sessions a tournament start has made        *)
(* running never outnumber the health points taken from the player's    *)
(* wallet, and the stored health is never below 0.                      *)
C29_EveryStartPaid ==
    \A u \in Users :
        /\ ParseInt(health[u]) >= 0
        /\ Cardinality(RunningOf(u))
                <= ParseInt(WalletAtStart) - ParseInt(health[u])

(* C30: the archive request is issued at most once for each tournament *)
(* id.                                                                  *)
C30_ArchivedAtMostOnce ==
    \A i, j \in 1 .. Len(archived) :
        archived[i] = archived[j] /\ archived[i] # NoKey => i = j

(* the phase a manual tournament k is in by its own timing keys *)
ManualPhase(k) ==
    LET r == CHOOSE x \in timing : x.tid = k
    IN  IF now - k.at < r.playTime THEN "p" ELSE "l"

(* C31: a tick that runs while a manual tournament is current and less   *)
(* than its play plus leaderboard time has passed since its creation    *)
(* keeps it current and remembers its phase: 'p' before the play time   *)
(* has passed, 'l' after.                                               *)
C31_ManualLastsItsTime ==
    [][/\ nextTick' # nextTick
       /\ currentTournamentKey.kind = "manual"
       /\ CustomTimeLeft(currentTournamentKey)
       => /\ currentTournamentKey' = currentTournamentKey
          /\ lastBroadcastPhase' = ManualPhase(currentTournamentKey)]_vars

(* two schedule requests at most, each for now or for one slot later, *)
(* the schedule checker, the tick and the clock                       *)
MaxSched == 2

NextSched ==
    \/ SchedCheck
    \/ Tick
    \/ /\ admins < MaxSched
       /\ \E t \in {now, now + TOURNAMENT_DURATION_MS}, cfg \in Configs :
            Schedule(t, cfg)
    \/ Clock({5000, SCHEDULE_PERIOD_MS}, MaxAdvances)

SpecSched == InitAt(TOURNAMENT_DURATION_MS) /\ [][NextSched]_vars

(* C32: a schedule check that creates a tournament from a due entry      *)
(* leaves the other entries in place: every entry that is not due at    *)
(* that check is still in the schedule list after it.                   *)
C32_OtherEntriesKept ==
    [][/\ nextSchedule' # nextSchedule
       /\ currentTournamentKey'.kind = "scheduled"
       /\ currentTournamentKey' # currentTournamentKey
       => \A i \in 1 .. Len(scheduled) :
            ~Due(scheduled[i])
                => \E j \in 1 .. Len(scheduled') : scheduled'[j] = scheduled[i]]_vars

(* ---- daily schedules (src/unnamed/part_005) ---- *)

IST_OFFSET_MS == 19800000
DAY_MS == 86400000
HOUR_MS == 3600000
MINUTE_MS == 60000
DAILY_EXECUTED_TTL_MS == 86400000
DAILY_PLAY_MIN == 12
DAILY_LEADERBOARD_MIN == 3

(* todayStr: the calendar day of t in IST *)
ISTDay(t) == (t + IST_OFFSET_MS) \div DAY_MS

(* the daily times an admin enters: 05:45 and 05:46 IST, as the digits *)
(* of HH and MM                                                         *)
DailyTimes == {[hh |-> <<0, 5>>, mm |-> <<4, 5>>], [hh |-> <<0, 5>>, mm |-> <<4, 6>>]}

(* scheduledTimestamp: today's date in IST at HH:MM, as a UTC timestamp *)
DailyTimestamp(e) ==
    ISTDay(now) * DAY_MS + ParseInt(e.time.hh) * HOUR_MS
        + ParseInt(e.time.mm) * MINUTE_MS - IST_OFFSET_MS

DailyDue(e) ==
    /\ now - DailyTimestamp(e) >= -SCHEDULE_EARLY_MS
    /\ now - DailyTimestamp(e) <= SCHEDULE_LATE_MS

(* redis.get of the executed-today key of entry e *)
AlreadyExecuted(e) ==
    \E m \in dailyExecuted : m.id = e.id /\ m.day = ISTDay(now) /\ m.exp > now

(* daily entries store their times in minutes *)
DailyConfig(e) ==
    [duration |-> (e.playTime + e.leaderboardTime) * MINUTE_MS,
     playTime |-> e.playTime * MINUTE_MS,
     leaderboardTime |-> e.leaderboardTime * MINUTE_MS]

(* POST /api/admin/tournament/daily-schedule: refused when an entry for *)
(* the same time exists                                                 *)
DailyAdd(time) ==
    /\ admins' = admins + 1
    /\ daily' =
        IF redisUp /\ ~\E i \in 1 .. Len(daily) : daily[i].time = time
        THEN Keep(<<[id |-> now, time |-> time, playTime |-> DAILY_PLAY_MIN,
                     leaderboardTime |-> DAILY_LEADERBOARD_MIN]>> \o daily,
                  SCHEDULE_KEEP)
        ELSE daily
    /\ Emit(<<>>)
    /\ UNCHANGED <<tk, sth, health, healthRegen, lastTu, dailyExecuted, dch,
                   liveIntervals>>
    /\ UNCHANGED <<now, advances, events, connected, requestCounts, sessVars,
                   cacheVars, coordVars, timerVars, redisUp, redisVars,
                   archived, igh, sph, trueWindow, bestWritten, lastStart,
                   lastResult, prevResult>>

(* createTournamentFromSchedule: ends the current tournament, makes newId *)
(* current, writes its four timing keys, broadcasts tournament_new        *)
CreateFromSchedule(newId, cfg) ==
    /\ history' = EndHistory(history, currentTournamentKey)
    /\ archived' = EndArchived(archived, currentTournamentKey)
    /\ currentTournamentKey' = newId
    /\ timing' = {r \in timing : r.tid # newId} \cup {TimingKeys(newId, cfg, TRUE)}
    /\ Emit(EndMsgs(currentTournamentKey) \o <<NewTournament(newId, cfg)>>)

(* the schedule check of part_005 up to the creation of a tournament:    *)
(* a due one-off entry first, else the first daily entry that has no     *)
(* executed-today key and is due; the key of a daily entry is written    *)
(* by the continuation DailyMark                                         *)
DailyCheck ==
    LET dues == {i \in 1 .. Len(scheduled) : Due(scheduled[i])}
        i == CHOOSE x \in dues : \A y \in dues : x <= y
        sch == scheduled[i]
        cand == {j \in 1 .. Len(daily) :
                    ~AlreadyExecuted(daily[j]) /\ DailyDue(daily[j])}
        j == CHOOSE x \in cand : \A y \in cand : x <= y
        e == daily[j]
    IN  /\ now >= nextSchedule
        /\ nextSchedule' = now + SCHEDULE_PERIOD_MS
        /\ IF redisUp /\ dues # {}
           THEN /\ CreateFromSchedule([kind |-> "scheduled", at |-> now,
                                       sched |-> sch.id], sch)
                /\ scheduled' = SelectSeq(scheduled, LAMBDA x : x.id # sch.id)
                /\ UNCHANGED dch
           ELSE IF redisUp /\ cand # {}
           THEN /\ CreateFromSchedule([kind |-> "daily", at |-> now,
                                       sched |-> e.id], DailyConfig(e))
                /\ dch' = dch \cup {[id |-> e.id, day |-> ISTDay(now)]}
                /\ UNCHANGED scheduled
           ELSE /\ UNCHANGED <<history, archived, currentTournamentKey, timing,
                               scheduled, dch>>
                /\ Emit(<<>>)
        /\ UNCHANGED <<tk, sth, health, healthRegen, lastTu, daily, dailyExecuted,
                       liveIntervals>>
        /\ UNCHANGED <<now, advances, events, admins, connected, requestCounts,
                       sessVars, cacheVars, autoTournamentEnabled,
                       lastBroadcastPhase, lastArchivedTournament, nextTick,
                       nextSweep, redisUp, zsets, targets, igh, sph, trueWindow,
                       bestWritten, lastStart, lastResult, prevResult>>

(* the continuation after createTournamentFromSchedule: setex of the     *)
(* executed-today key; a store failure is caught and logged              *)
DailyMark(p) ==
    /\ p \in dch
    /\ dch' = dch \ {p}
    /\ dailyExecuted' =
        IF redisUp
        THEN {m \in dailyExecuted : ~(m.id = p.id /\ m.day = p.day)}
                \cup {[id |-> p.id, day |-> p.day,
                       exp |-> now + DAILY_EXECUTED_TTL_MS]}
        ELSE dailyExecuted
    /\ Emit(<<>>)
    /\ UNCHANGED <<tk, sth, health, healthRegen, lastTu, daily, liveIntervals>>
    /\ UNCHANGED <<now, advances, events, admins, connected, requestCounts,
                   sessVars, cacheVars, coordVars, timerVars, redisUp,
                   redisVars, archived, igh, sph, trueWindow, bestWritten,
                   lastStart, lastResult, prevResult>>

(* one daily entry for 05:45 IST (clock 900000) entered 15 s before its  *)
(* time, the schedule check with its continuation, the tick, the store   *)
(* failing and recovering; the clock moves while no check is suspended   *)
DailyStart == TOURNAMENT_DURATION_MS - SCHEDULE_LATE_MS

NextDaily ==
    \/ admins < MaxAdmin /\ \E t \in DailyTimes : DailyAdd(t)
    \/ DailyCheck
    \/ \E p \in dch : DailyMark(p)
    \/ Tick
    \/ StoreChange
    \/ dch = {} /\ Clock({SCHEDULE_PERIOD_MS}, MaxAdvances)

SpecDaily == InitAt(DailyStart) /\ [][NextDaily]_vars

(* the daily tournaments created so far: the current one and the ended *)
DailyIds ==
    {history[i].id : i \in {n \in 1 .. Len(history) : history[n].id.kind = "daily"}}
        \cup (IF currentTournamentKey.kind = "daily"
              THEN {currentTournamentKey} ELSE {})

(* C33: no two tournaments are created from the same daily entry on the *)
(* same calendar day (IST).                                             *)
C33_DailyOncePerDay ==
    \A a, b \in DailyIds :
        a.sched = b.sched /\ ISTDay(a.at) = ISTDay(b.at) => a = b

(* C34: no tournament id has two entries in tournament_history, and the *)
(* current tournament is not one that was ended before.                 *)
C34_EndedAtMostOnce ==
    /\ \A i, j \in 1 .. Len(history) :
        history[i].id = history[j].id /\ history[i].id # NoKey => i = j
    /\ \A i \in 1 .. Len(history) :
        currentTournamentKey # NoKey => history[i].id # currentTournamentKey

(* C35: no entry of tournament_history and no tou_end broadcast carries *)
(* the null tournament id.                                              *)
C35_NoNullEnded ==
    /\ \A i \in 1 .. Len(history) : history[i].id # NoKey
    /\ \A k \in 1 .. Len(out) : out[k].ev = "tou_end" => out[k].tid # NoKey

(* C36: a socket that has disconnected and has no suspended handler has *)
(* no session, no active-user entry and no push interval.               *)
C36_NothingLeftAfterDisconnect ==
    \A c \in Conns :
        /\ c \notin connected
        /\ igh[c].pc = "idle" /\ sph[c].pc = "idle" /\ sth[c].pc = "idle"
        => /\ sessionStore[c] = NoSession
           /\ activeUsers[c] = 0
           /\ c \notin gameIntervals

(* C37: a socket has an entry in gameIntervals only while its session is *)
(* RUNNING.                                                              *)
C37_IntervalOnlyWhileRunning ==
    \A c \in Conns : c \in gameIntervals => sessionStore[c].status = "running"

(* one socket of a player holding two points: inits in either mode,     *)
(* starts, stops and the disconnect; a start in practice mode is        *)
(* handled while a start in tournament mode waits for the store         *)
MaxLive == 5

NextStarts ==
    \/ IgCache(1)
    \/ IgGet(1)
    \/ IgScore(1)
    \/ IgReply(1)
    \/ SpReply(1)
    \/ events < MaxLive /\ igh[1].pc = "idle"
            /\ \E m \in Modes : IgRecv(1, 1, m)
    \/ events < MaxLive /\ (sth[1].pc = "idle" \/ sessionStore[1].mode = "p")
            /\ StGate(1)
    \/ StHealth(1)
    \/ StSet(1)
    \/ StRegen(1)
    \/ events < MaxLive /\ SpRecv(1, 0)
    \/ Disconnect(1)
    \/ igh[1].pc = "idle" /\ sph[1].pc = "idle" /\ Clock({5000}, MaxAdvances)

SpecStarts ==
    InitStore(TOURNAMENT_DURATION_MS, NumToStr(2)) /\ [][NextStarts]_vars

====
